---- MODULE Spec2Model ----
(***************************************************************************)
(* NJDG judicial dashboard: the case-metrics pipeline of the Streamlit     *)
(* pages (schema normaliser, case cleaner, disposal predictor, scorers,    *)
(* anomaly detector), modelled from the page sources.                      *)
(*                                                                         *)
(* Representation.  A DataFrame is a record [columns, rows]: columns is    *)
(* the header (a sequence of names), rows a sequence of rows, each a       *)
(* sequence of cells aligned with the header.  Text as read from a file    *)
(* (raw column names, string cells) is a sequence of one-character         *)
(* strings, so that strip / lower / parsing are computed character by      *)
(* character; a normalised column name is the string they join to.         *)
(* Numbers are exact                                                       *)
(* rationals [k |-> "num", n, d] in lowest terms (pandas float64 and int64 *)
(* values of the sizes that occur here are represented exactly);           *)
(* NaN / None is the cell [k |-> "null"], NaT the cell [k |-> "nat"].      *)
(***************************************************************************)
EXTENDS Integers, Sequences, FiniteSets, TLC

VARIABLES
    csv,             \* the case table as stored in the data file (never written)
    csv2,            \* a second data file, for comparing two loads
    df,              \* the in-memory frame the caller holds
    result,          \* what the operation under study returned
    result2,         \* what it returned for the second load / second run; where
                     \* the views are opened, what the last view was opened with;
                     \* of a browser, its last click and whether it logged out
    hearing_weight,  \* slider "Days added per hearing"
    year_weight,     \* slider "Backlog impact per year"
    baseline_delay,  \* slider "Baseline court delay (days)"
    contamination,   \* slider "Expected Anomaly Ratio", in hundredths
    today,           \* the current date (day ordinal), pd.Timestamp.today()
    pc,              \* position of the run; the page the browser is on
    session_state,   \* st.session_state of the browser session
    cookies,         \* the browser's cookies under the prefix nyayadrishti_
    tokens,          \* the session tokens the server holds valid, <<name, token>>
    widgets,         \* the widgets of the page on screen and their values
    store,           \* the notes file and the reminders file
    script           \* the Lawyer dashboard runs in progress, one per session

\* the login state, the screen and the side store of notes
web == <<session_state, cookies, tokens, widgets, store, script>>

vars == <<csv, csv2, df, result, result2, hearing_weight, year_weight,
          baseline_delay, contamination, today, pc, web>>

(***************************************************************************)
(* Text                                                                    *)
(***************************************************************************)
UpperChars == <<"A","B","C","D","E","F","G","H","I","J","K","L","M",
                "N","O","P","Q","R","S","T","U","V","W","X","Y","Z">>
LowerChars == <<"a","b","c","d","e","f","g","h","i","j","k","l","m",
                "n","o","p","q","r","s","t","u","v","w","x","y","z">>

Whitespace == {" ", "\t", "\n", "\r"}

char_lower(c) ==
    IF \E i \in DOMAIN UpperChars : UpperChars[i] = c
    THEN LowerChars[CHOOSE i \in DOMAIN UpperChars : UpperChars[i] = c]
    ELSE c

\* str.lower()
str_lower(s) == [i \in DOMAIN s |-> char_lower(s[i])]

\* str.strip(): drop leading and trailing whitespace
str_strip(s) ==
    LET ink == {i \in DOMAIN s : s[i] \notin Whitespace}
    IN  IF ink = {} THEN <<>>
        ELSE LET first == CHOOSE i \in ink : \A j \in ink : i <= j
                 last  == CHOOSE i \in ink : \A j \in ink : j <= i
             IN  SubSeq(s, first, last)

\* the characters of s as one string
RECURSIVE JoinChars(_)
JoinChars(s) == IF s = <<>> THEN "" ELSE s[1] \o JoinChars(Tail(s))

(***************************************************************************)
(* Column names used by the pages                                          *)
(***************************************************************************)
n_cnr                == "cnr"
n_cnr_no             == "cnr_no"
n_case_id            == "case_id"
n_cnr_number         == "cnr_number"
n_no_of_hearings     == "no_of_hearings"
n_hearing_count      == "hearing_count"
n_total_hearings     == "total_hearings"
n_disposal_days      == "disposal_days"
n_case_disposal_days == "case_disposal_days"
n_date_filed         == "date_filed"
n_decision_date      == "decision_date"
n_case_duration      == "case_duration"
n_filing_year        == "filing_year"
n_current_status     == "current_status"
n_court_name         == "court_name"

(***************************************************************************)
(* Cells and frames                                                        *)
(***************************************************************************)
Null == [k |-> "null"]

RECURSIVE Gcd(_, _)
Gcd(a, b) == IF b = 0 THEN a ELSE Gcd(b, a % b)

Abs(x) == IF x < 0 THEN -x ELSE x

\* the rational n/d (d > 0) in lowest terms
Q(n, d) ==
    IF d = 1 THEN [k |-> "num", n |-> n, d |-> 1]
    ELSE LET g == Gcd(Abs(n), d)
         IN  [k |-> "num", n |-> n \div g, d |-> d \div g]

Int2Q(i) == [k |-> "num", n |-> i, d |-> 1]

Text(s) == [k |-> "text", s |-> s]

\* NaT: the null of a datetime64 column
NaT == [k |-> "nat"]

IsNull(c) == c.k \in {"null", "nat"}
IsNum(c)  == c.k = "num"

HasCol(f, name) == \E i \in DOMAIN f.columns : f.columns[i] = name

\* position of the (first) column called name
ColIdx(f, name) ==
    CHOOSE i \in DOMAIN f.columns :
        /\ f.columns[i] = name
        /\ \A j \in DOMAIN f.columns : f.columns[j] = name => i <= j

\* a column as a sequence with every cell computed
Series(col) == col \o <<>>

\* f[name]: the column as a sequence of cells
Column(f, name) ==
    LET i == ColIdx(f, name)
    IN  Series([r \in DOMAIN f.rows |-> f.rows[r][i]])

\* f[name] = vals: overwrite the column, or append it when it is new
SetCol(f, name, vals) ==
    IF HasCol(f, name)
    THEN LET i == ColIdx(f, name)
         IN  [f EXCEPT !.rows =
                [r \in DOMAIN f.rows |-> [f.rows[r] EXCEPT ![i] = vals[r]]]]
    ELSE [columns |-> Append(f.columns, name),
          rows    |-> [r \in DOMAIN f.rows |-> Append(f.rows[r], vals[r])]]

\* a run of assignments f[name] = col, given as <<name, col>> pairs in order:
\* an existing column is overwritten in place, a new one is appended, and the
\* last assignment to a name wins
AssignCols(f, new) ==
    LET fresh(j) == /\ ~ HasCol(f, new[j][1])
                    /\ \A i \in 1..(j - 1) : new[i][1] # new[j][1]
        added    == SelectSeq([j \in DOMAIN new |-> j], fresh)
        header   == f.columns \o [a \in DOMAIN added |-> new[added[a]][1]]
        src      == [i \in DOMAIN header |->
                        IF \E j \in DOMAIN new : new[j][1] = header[i]
                        THEN CHOOSE j \in DOMAIN new :
                                /\ new[j][1] = header[i]
                                /\ \A q \in DOMAIN new : new[q][1] = header[i] => q <= j
                        ELSE 0]
    IN  [columns |-> header,
         rows    |-> [r \in DOMAIN f.rows |->
                        [i \in DOMAIN header |->
                            IF src[i] = 0 THEN f.rows[r][i] ELSE new[src[i]][2][r]]]]

(***************************************************************************)
(* Schema normaliser                                                       *)
(***************************************************************************)
\* the alias table, in dict order: <<alias, canonical>>
column_map ==
    << <<n_cnr, n_cnr_number>>,
       <<n_cnr_no, n_cnr_number>>,
       <<n_case_id, n_cnr_number>>,
       <<n_no_of_hearings, n_total_hearings>>,
       <<n_hearing_count, n_total_hearings>>,
       <<n_disposal_days, n_disposal_days>>,
       <<n_case_disposal_days, n_disposal_days>>,
       <<n_date_filed, n_date_filed>>,
       <<n_decision_date, n_decision_date>> >>

\* a normaliser that forgets .str.lower()
NormalizeNameStripOnly(name) == JoinChars(str_strip(name))

\* one name through .str.strip().str.lower()
NormalizeName(name) == JoinChars(str_lower(str_strip(name)))

\* the header after df.columns = df.columns.str.strip().str.lower()
normalized_header(f) == [i \in DOMAIN f.columns |-> NormalizeName(f.columns[i])]

\* DataFrame.rename(columns=m): every column whose name is a key of m is renamed
rename_columns(f, m) ==
    [f EXCEPT !.columns =
        [i \in DOMAIN f.columns |->
            IF \E e \in m : e[1] = f.columns[i]
            THEN (CHOOSE e \in m : e[1] = f.columns[i])[2]
            ELSE f.columns[i]]]

\* the value normalize_columns returns
normalize_columns(f) ==
    LET g == [f EXCEPT !.columns = normalized_header(f)]
        m == {column_map[i] : i \in {j \in DOMAIN column_map : HasCol(g, column_map[j][1])}}
    IN  rename_columns(g, m)

(***************************************************************************)
(* Rational arithmetic                                                     *)
(***************************************************************************)
QAdd(a, b) == Q(a.n * b.d + b.n * a.d, a.d * b.d)
QSub(a, b) == Q(a.n * b.d - b.n * a.d, a.d * b.d)
QMul(a, b) == Q(a.n * b.n, a.d * b.d)
QLt(a, b)  == a.n * b.d < b.n * a.d
QLe(a, b)  == a.n * b.d <= b.n * a.d

\* floor of n/d for d > 0 (TLA+ \div already rounds towards minus infinity)
Floor(n, d) == n \div d

\* numpy / pandas round(0): to the nearest integer, ties to the even one
RoundHalfEven(a) ==
    LET f  == Floor(a.n, a.d)
        r2 == 2 * (a.n - f * a.d)      \* twice the fractional part, times d
    IN  IF r2 < a.d THEN f
        ELSE IF r2 > a.d THEN f + 1
        ELSE IF f % 2 = 0 THEN f ELSE f + 1

(***************************************************************************)
(* Dates: pd.to_datetime(errors="coerce") on ISO "YYYY-MM-DD" text         *)
(***************************************************************************)
Digits == <<"0","1","2","3","4","5","6","7","8","9">>

IsDigit(c) == \E i \in DOMAIN Digits : Digits[i] = c

DigitVal(c) == (CHOOSE i \in DOMAIN Digits : Digits[i] = c) - 1

IsLeap(y) == (y % 4 = 0 /\ y % 100 # 0) \/ y % 400 = 0

DaysInMonth(y, m) ==
    IF m = 2 THEN (IF IsLeap(y) THEN 29 ELSE 28)
    ELSE IF m \in {4, 6, 9, 11} THEN 30 ELSE 31

\* days since 1970-01-01 of a valid civil date
DaysFromCivil(y, m, d) ==
    LET yy  == IF m <= 2 THEN y - 1 ELSE y
        era == yy \div 400
        yoe == yy - era * 400
        mp  == IF m > 2 THEN m - 3 ELSE m + 9
        doy == (153 * mp + 2) \div 5 + d - 1
        doe == yoe * 365 + yoe \div 4 - yoe \div 100 + doy
    IN  era * 146097 + doe - 719468

Date(day) == [k |-> "date", day |-> day]

\* one cell through pd.to_datetime(..., errors="coerce"): a timestamp, or NaT
to_datetime(c) ==
    IF c.k = "date" THEN c
    ELSE IF c.k # "text" THEN NaT
    ELSE LET s == c.s IN
         IF /\ Len(s) = 10
            /\ s[5] = "-" /\ s[8] = "-"
            /\ \A i \in {1, 2, 3, 4, 6, 7, 9, 10} : IsDigit(s[i])
         THEN LET y == 1000 * DigitVal(s[1]) + 100 * DigitVal(s[2])
                          + 10 * DigitVal(s[3]) + DigitVal(s[4])
                  m == 10 * DigitVal(s[6]) + DigitVal(s[7])
                  d == 10 * DigitVal(s[9]) + DigitVal(s[10])
              IN  IF m \in 1..12 /\ d >= 1 /\ d <= DaysInMonth(y, m)
                  THEN Date(DaysFromCivil(y, m, d))
                  ELSE NaT
         ELSE NaT

(***************************************************************************)
(* Case cleaner                                                            *)
(***************************************************************************)
\* the non-null cells of a column, as a sequence in row order
RECURSIVE DropNull(_)
DropNull(col) ==
    IF col = <<>> THEN <<>>
    ELSE IF IsNull(col[1]) THEN DropNull(Tail(col))
    ELSE <<col[1]>> \o DropNull(Tail(col))

RECURSIVE InsertSorted(_, _)
InsertSorted(x, s) ==
    IF s = <<>> THEN <<x>>
    ELSE IF QLe(x, s[1]) THEN <<x>> \o s
    ELSE <<s[1]>> \o InsertSorted(x, Tail(s))

RECURSIVE SortNums(_)
SortNums(s) == IF s = <<>> THEN <<>> ELSE InsertSorted(s[1], SortNums(Tail(s)))

\* a median that takes the lower middle value instead of the mean of the two
MedianLowerMiddle(col) ==
    LET s == SortNums(DropNull(col))
        n == Len(s)
    IN  IF n = 0 THEN Null ELSE s[(n + 1) \div 2]

\* Series.median(): skips nulls; NaN for a column without values
Median(col) ==
    LET s == SortNums(DropNull(col))
        n == Len(s)
    IN  IF n = 0 THEN Null
        ELSE IF n % 2 = 1 THEN s[(n + 1) \div 2]
        ELSE QMul(QAdd(s[n \div 2], s[n \div 2 + 1]), Q(1, 2))

\* Series.fillna(v): fillna(NaN) changes nothing
fillna(col, v) ==
    IF \E r \in DOMAIN col : IsNull(col[r])
    THEN [r \in DOMAIN col |-> IF IsNull(col[r]) THEN v ELSE col[r]]
    ELSE col

\* select_dtypes(include=[np.number]): int64 / float64 columns
IsNumericCol(f, i) == \A r \in DOMAIN f.rows : f.rows[r][i].k \in {"num", "null"}

numeric_cols(f) ==
    {f.columns[i] : i \in {j \in DOMAIN f.columns : IsNumericCol(f, j)}}

\* a duration taken the wrong way round
DurationDaysReversed(dec, fil) ==
    IF dec.k = "date" /\ fil.k = "date" THEN Int2Q(fil.day - dec.day) ELSE Null

\* (decision_date - date_filed).dt.days, NaN where either is NaT
DurationDays(dec, fil) ==
    IF dec.k = "date" /\ fil.k = "date" THEN Int2Q(dec.day - fil.day) ELSE Null

\* lines 66-68: one date column through pd.to_datetime, when it exists
parse_date_column(f, name) ==
    IF HasCol(f, name)
    THEN LET col == Column(f, name)
         IN  SetCol(f, name, [r \in DOMAIN f.rows |-> to_datetime(col[r])])
    ELSE f

parse_dates(f) == parse_date_column(parse_date_column(f, n_date_filed), n_decision_date)

\* lines 70-75: the case_duration column
add_case_duration(f) ==
    IF HasCol(f, n_date_filed) /\ HasCol(f, n_decision_date)
    THEN LET dec == Column(f, n_decision_date)
             fil == Column(f, n_date_filed)
         IN  SetCol(f, n_case_duration,
                    [r \in DOMAIN f.rows |-> DurationDays(dec[r], fil[r])])
    ELSE SetCol(f, n_case_duration, [r \in DOMAIN f.rows |-> Null])

\* lines 77-79: every numeric column through fillna(median)
RECURSIVE impute(_, _)
impute(f, todo) ==
    IF todo = {} THEN f
    ELSE LET name == CHOOSE c \in todo : TRUE
             col  == Column(f, name)
         IN  impute(SetCol(f, name, fillna(col, Median(col))), todo \ {name})

clean_cases(cases) ==
    LET f == add_case_duration(parse_dates(normalize_columns(cases)))
    IN  impute(f, numeric_cols(f))

(***************************************************************************)
(* Inputs                                                                  *)
(***************************************************************************)
NoFrame  == [columns |-> <<>>, rows |-> <<>>]
NoResult == [k |-> "none"]

\* all sequences over S of length lo..hi
SeqsOf(S, lo, hi) == UNION {[1..n -> S] : n \in lo..hi}

IsInjective(s) == \A i, j \in DOMAIN s : s[i] = s[j] => i = j

\* raw header names as they come in data files
raw_cnr            == <<"c","n","r">>
raw_cnr_number     == <<"c","n","r","_","n","u","m","b","e","r">>
raw_no_of_hearings == <<"n","o","_","o","f","_","h","e","a","r","i","n","g","s">>
raw_disposal_days  == <<"d","i","s","p","o","s","a","l","_","d","a","y","s">>
raw_cnr_upper      == <<"C","N","R">>
raw_cnr_no_padded  == <<" ","c","n","r","_","n","o">>
raw_case_id_mixed  == <<"C","a","s","e","_","I","D"," ">>
raw_hearing_count  == <<"H","e","a","r","i","n","g","_","C","o","u","n","t">>
raw_court_name     == <<"C","o","u","r","t","_","N","a","m","e">>
raw_filing_year    == <<"F","i","l","i","n","g","_","Y","e","a","r">>
raw_date_filed     == <<"D","a","t","e","_","F","i","l","e","d">>
raw_decision_date  == <<" ","d","e","c","i","s","i","o","n","_","d","a","t","e"," ">>

NamePool ==
    {raw_cnr, raw_cnr_upper, raw_cnr_no_padded, raw_case_id_mixed, raw_cnr_number,
     raw_no_of_hearings, raw_hearing_count, raw_court_name}

MaxCols == 3

\* a one-row table under header h
NormTable(h) == [columns |-> h, rows |-> << [i \in DOMAIN h |-> Int2Q(10 * i)] >>]

\* no browser session, nothing on screen, nothing stored
NoWeb ==
    /\ session_state = [authenticated |-> Null, user_role |-> Null, user_name |-> Null]
    /\ cookies = NoResult
    /\ tokens = NoResult
    /\ widgets = NoResult
    /\ store = NoResult
    /\ script = NoResult

Idle ==
    /\ csv2 = NoFrame
    /\ result2 = NoResult
    /\ hearing_weight = 0
    /\ year_weight = 0
    /\ baseline_delay = 0
    /\ contamination = 0
    /\ today = 0

(***************************************************************************)
(* Specification of the schema normaliser                                  *)
(***************************************************************************)
\* read_csv never yields two identical raw names
InitNorm ==
    /\ \E h \in SeqsOf(NamePool, 1, MaxCols) : IsInjective(h) /\ csv = NormTable(h)
    /\ df = csv
    /\ result = NoResult
    /\ pc = "loaded"
    /\ Idle
    /\ NoWeb

\* normalize_columns(df): the header of df is overwritten in place, the renamed
\* frame is returned
NormalizeColumns ==
    /\ pc = "loaded"
    /\ df' = [df EXCEPT !.columns = normalized_header(df)]
    /\ result' = normalize_columns(df)
    /\ pc' = "done"
    /\ UNCHANGED <<web, csv, csv2, result2, hearing_weight, year_weight,
                   baseline_delay, contamination, today>>

NextNorm == NormalizeColumns

SpecNorm == InitNorm /\ [][NextNorm]_vars

(***************************************************************************)
(* Claims about the schema normaliser (checked under SpecNorm)             *)
(***************************************************************************)
\* the lower-case form of one character
LowerForm(c) ==
    IF \E i \in DOMAIN UpperChars : UpperChars[i] = c
    THEN LowerChars[CHOOSE i \in DOMAIN UpperChars : UpperChars[i] = c]
    ELSE c

\* out is raw without its leading and trailing whitespace, in lower case
IsNormalFormOf(out, raw) ==
    \E a \in 0..Len(raw) : \E b \in 0..(Len(raw) - a) :
        LET n == Len(raw) - a - b IN
        /\ \A i \in 1..a : raw[i] \in Whitespace
        /\ \A i \in (a + n + 1)..Len(raw) : raw[i] \in Whitespace
        /\ n > 0 => (raw[a + 1] \notin Whitespace /\ raw[a + n] \notin Whitespace)
        /\ out = JoinChars([i \in 1..n |-> LowerForm(raw[a + i])])

AliasEntries == {column_map[i] : i \in DOMAIN column_map}

\* C9: the table normalize_columns returns never has two columns of the same
\* name (no canonical name appears twice), whatever the input header.
C9_NoDuplicateColumns ==
    pc = "done" => IsInjective(result.columns)

\* C10: normalize_columns lower-cases and strips every name, renames exactly the
\* columns whose normalised name is an alias-table key to the mapped canonical
\* name, keeps every other normalised name, and leaves the number of columns,
\* their order and all cell values unchanged.
C10_RenameOnlyAliases ==
    pc = "done" =>
        /\ Len(result.columns) = Len(csv.columns)
        /\ result.rows = csv.rows
        /\ \A i \in DOMAIN csv.columns :
              LET raw == csv.columns[i]
                  out == result.columns[i]
              IN  \/ \E e \in AliasEntries : IsNormalFormOf(e[1], raw) /\ out = e[2]
                  \/ /\ ~ \E e \in AliasEntries : IsNormalFormOf(e[1], raw)
                     /\ IsNormalFormOf(out, raw)

\* an alias written with capitals and padding is renamed while an unknown
\* column next to it only gets normalised
C10_Witness ==
    /\ pc = "done"
    /\ \E i, j \in DOMAIN csv.columns :
          /\ csv.columns[i] = raw_case_id_mixed
          /\ result.columns[i] = n_cnr_number
          /\ csv.columns[j] = raw_court_name
          /\ result.columns[j] = n_court_name

(***************************************************************************)
(* Specification of the case cleaner                                       *)
(***************************************************************************)
d_2020_01_15 == <<"2","0","2","0","-","0","1","-","1","5">>
d_2020_02_29 == <<"2","0","2","0","-","0","2","-","2","9">>
d_2021_02_29 == <<"2","0","2","1","-","0","2","-","2","9">>   \* no such day
d_2020_03_01 == <<"2","0","2","0","-","0","3","-","0","1">>
d_2019_12_31 == <<"2","0","1","9","-","1","2","-","3","1">>
d_2020_13_01 == <<"2","0","2","0","-","1","3","-","0","1">>   \* no such month

FiledChoices    == {Null, Text(d_2020_01_15), Text(d_2020_02_29), Text(d_2021_02_29)}
DecisionChoices == {Null, Text(d_2020_03_01), Text(d_2019_12_31), Text(d_2020_13_01)}
NumChoices      == {Null, Int2Q(1), Int2Q(2), Int2Q(3), Int2Q(4)}

MaxNumRows  == 5
MaxDateRows == 2

Cnr(r) == Text(<<"K", Digits[r + 1]>>)

HeaderFull       == <<raw_cnr_upper, raw_hearing_count, raw_date_filed, raw_decision_date>>
HeaderNoDecision == <<raw_cnr_upper, raw_hearing_count, raw_date_filed>>
HeaderNoFiled    == <<raw_cnr_upper, raw_hearing_count, raw_decision_date>>

HeaderNoDates    == <<raw_cnr_upper, raw_hearing_count>>

\* a table whose numeric column is v (the file has no date columns)
NumericTable(v) ==
    [columns |-> HeaderNoDates,
     rows    |-> [r \in DOMAIN v |-> <<Cnr(r), v[r]>>]]

\* a table whose date cells are v, under one of the headers with date columns
DatesTable(h, v) ==
    [columns |-> h,
     rows    |-> [r \in DOMAIN v |->
                    IF h = HeaderFull THEN <<Cnr(r), Int2Q(r), v[r][1], v[r][2]>>
                    ELSE IF h = HeaderNoDecision THEN <<Cnr(r), Int2Q(r), v[r][1]>>
                    ELSE <<Cnr(r), Int2Q(r), v[r][2]>>]]

InitClean ==
    /\ \/ \E v \in SeqsOf(NumChoices, 0, MaxNumRows) : csv = NumericTable(v)
       \/ \E h \in {HeaderFull, HeaderNoDecision, HeaderNoFiled} :
             \E v \in SeqsOf(FiledChoices \X DecisionChoices, 0, MaxDateRows) :
                 csv = DatesTable(h, v)
    /\ df = csv
    /\ result = NoResult
    /\ pc = "loaded"
    /\ Idle
    /\ NoWeb

\* cases = clean_cases(cases)
CleanCases ==
    /\ pc = "loaded"
    /\ df' = [df EXCEPT !.columns = normalized_header(df)]
    /\ result' = clean_cases(df)
    /\ pc' = "cleaned"
    /\ UNCHANGED <<web, csv, csv2, result2, hearing_weight, year_weight,
                   baseline_delay, contamination, today>>

NextClean == CleanCases

SpecClean == InitClean /\ [][NextClean]_vars

(***************************************************************************)
(* Claims about the case cleaner (checked under SpecClean)                 *)
(***************************************************************************)
\* C6: after clean_cases returns, no numeric column of the table holds a null,
\* also when a numeric column has no value at all or case_duration is created
\* all-null.
C6_NoNullInNumericColumns ==
    pc = "cleaned" =>
        \A i \in DOMAIN result.columns :
            IsNumericCol(result, i) =>
                \A r \in DOMAIN result.rows : ~ IsNull(result.rows[r][i])

\* the two columns clean_cases turns into timestamps
IsDateColumn(raw) ==
    IsNormalFormOf(n_date_filed, raw) \/ IsNormalFormOf(n_decision_date, raw)

\* the median of the non-null cells of col, by rank counting
MedianByRank(col) ==
    LET I      == {r \in DOMAIN col : ~ IsNull(col[r])}
        n      == Cardinality(I)
        Kth(k) == col[CHOOSE r \in I :
                        /\ Cardinality({q \in I : QLt(col[q], col[r])}) < k
                        /\ k <= Cardinality({q \in I : QLe(col[q], col[r])})]
    IN  IF n = 0 THEN Null
        ELSE IF n % 2 = 1 THEN Kth((n + 1) \div 2)
        ELSE LET a == Kth(n \div 2)
                 b == Kth(n \div 2 + 1)
             IN  Q(a.n * b.d + b.n * a.d, 2 * a.d * b.d)

\* C7: in clean_cases every missing cell of a numeric column becomes the median
\* of the column's non-missing values over the whole table (the mean of the two
\* middle values when their count is even), and every non-missing numeric cell
\* keeps its value.
C7_MedianImputation ==
    pc = "cleaned" =>
        \A i \in DOMAIN csv.columns :
            (IsNumericCol(csv, i) /\ ~ IsDateColumn(csv.columns[i])) =>
                LET col == [r \in DOMAIN csv.rows |-> csv.rows[r][i]]
                IN  \A r \in DOMAIN csv.rows :
                        result.rows[r][i] =
                            IF IsNull(col[r]) THEN MedianByRank(col) ELSE col[r]

\* the spec's example: one missing cell next to 1, 2, 3, 4 is filled with 2.5
C7_Witness ==
    /\ pc = "cleaned"
    /\ Len(csv.rows) = 5
    /\ \E r \in DOMAIN csv.rows :
          /\ IsNull(csv.rows[r][2])
          /\ {csv.rows[q][2] : q \in DOMAIN csv.rows \ {r}}
                = {Int2Q(1), Int2Q(2), Int2Q(3), Int2Q(4)}
          /\ result.rows[r][2] = Q(5, 2)
          /\ \A q \in DOMAIN csv.rows \ {r} : result.rows[q][2] = csv.rows[q][2]

\* the calendar: day ordinals (days since 1970-01-01) of the dates used
Calendar ==
    { <<d_2020_01_15, 18276>>, <<d_2020_02_29, 18321>>,
      <<d_2020_03_01, 18322>>, <<d_2019_12_31, 18261>> }

IsValidDate(c) == c.k = "text" /\ \E e \in Calendar : e[1] = c.s

DayOf(c) == (CHOOSE e \in Calendar : e[1] = c.s)[2]

\* the raw cells of the column that normalises to name, all Null when the file
\* has no such column
RawColumn(name) ==
    IF \E i \in DOMAIN csv.columns : IsNormalFormOf(name, csv.columns[i])
    THEN LET i == CHOOSE j \in DOMAIN csv.columns : IsNormalFormOf(name, csv.columns[j])
         IN  [r \in DOMAIN csv.rows |-> csv.rows[r][i]]
    ELSE [r \in DOMAIN csv.rows |-> Null]

\* per row: the duration when both raw dates are dates of the calendar, else Null
KnownDurations ==
    LET fil == RawColumn(n_date_filed)
        dec == RawColumn(n_decision_date)
    IN  [r \in DOMAIN csv.rows |->
            IF IsValidDate(fil[r]) /\ IsValidDate(dec[r])
            THEN Int2Q(DayOf(dec[r]) - DayOf(fil[r]))
            ELSE Null]

\* C8 as stated: in the table clean_cases returns, case_duration is decision_date
\* minus date_filed in whole days when both dates are present and parseable, and
\* null when either is absent or unparseable.
C8_DurationOrNull ==
    pc = "cleaned" =>
        /\ HasCol(result, n_case_duration)
        /\ Column(result, n_case_duration) = KnownDurations

\* C8 amended: case_duration is the difference in whole days when both dates are
\* present and parseable; otherwise it is the median of the durations of the rows
\* that have both dates, and null only when no row has both.
C8_DurationOrMedian ==
    pc = "cleaned" =>
        /\ HasCol(result, n_case_duration)
        /\ LET known == KnownDurations
               med   == MedianByRank(known)
               got   == Column(result, n_case_duration)
           IN  \A r \in DOMAIN csv.rows :
                   got[r] = IF IsNull(known[r]) THEN med ELSE known[r]

\* a row with both dates (46 days) next to a row whose decision date does not
\* parse: the second row's case_duration is the imputed 46, not null
C8_Witness ==
    /\ pc = "cleaned"
    /\ Len(csv.rows) = 2
    /\ RawColumn(n_date_filed)[1] = Text(d_2020_01_15)
    /\ RawColumn(n_decision_date)[1] = Text(d_2020_03_01)
    /\ RawColumn(n_decision_date)[2] = Text(d_2020_13_01)
    /\ Column(result, n_case_duration)[1] = Int2Q(46)
    /\ Column(result, n_case_duration)[2] = Int2Q(46)
    /\ Column(result, n_decision_date)[2] = NaT

(***************************************************************************)
(* Disposal predictor (AI Predictions page)                                *)
(***************************************************************************)
n_hearing_component  == "hearing_component"
n_year_component     == "year_component"
n_baseline_component == "baseline_component"
n_predicted_disposal == "predicted_disposal"
n_best_case_days     == "best_case_days"
n_worst_case_days    == "worst_case_days"
n_delay_risk         == "delay_risk"
n_primary_bottleneck == "primary_bottleneck"

REQUIRED_COLS == <<n_cnr_number, n_disposal_days, n_total_hearings, n_filing_year>>

\* the sliders: st.slider(label, min, max, default)
HearingWeightMin     == 10
HearingWeightMax     == 50
HearingWeightDefault == 20
YearWeightMin        == 5
YearWeightMax        == 30
YearWeightDefault    == 10
BaselineDelayMin     == 50
BaselineDelayMax     == 200
BaselineDelayDefault == 100

\* a label cell (delay_risk, primary_bottleneck, severity)
Label(v) == [k |-> "label", v |-> v]

\* float arithmetic with NaN: NaN in, NaN out
NAdd(a, b) == IF IsNull(a) \/ IsNull(b) THEN Null ELSE QAdd(a, b)
NSub(a, b) == IF IsNull(a) \/ IsNull(b) THEN Null ELSE QSub(a, b)
NMul(a, b) == IF IsNull(a) \/ IsNull(b) THEN Null ELSE QMul(a, b)
NRound(a)  == IF IsNull(a) THEN Null ELSE Int2Q(RoundHalfEven(a))

\* comparisons with NaN are False
NLe(a, b) == ~ IsNull(a) /\ ~ IsNull(b) /\ QLe(a, b)
NGe(a, b) == ~ IsNull(a) /\ ~ IsNull(b) /\ QLe(b, a)
\* Series.min(): skips nulls; NaN for a column without values
ColMin(col) ==
    LET s == SortNums(DropNull(col))
    IN  IF s = <<>> THEN Null ELSE s[1]

\* a year component with the subtraction the wrong way round
YearComponentReversed(fy, min_year, yw) == NMul(NSub(min_year, fy), Int2Q(yw))

\* line 80: (filing_year - min_year) * year_weight
YearComponent(fy, min_year, yw) == NMul(NSub(fy, min_year), Int2Q(yw))

\* line 79: total_hearings * hearing_weight
HearingComponent(th, hw) == NMul(th, Int2Q(hw))

\* line 89: (predicted_disposal * 0.8).round(0)
BestCase(pred) == NRound(NMul(pred, Q(4, 5)))

\* a worst case with the best-case multiplier
WorstCaseWrongFactor(pred) == NRound(NMul(pred, Q(4, 5)))

\* line 90: (predicted_disposal * 1.25).round(0)
WorstCase(pred) == NRound(NMul(pred, Q(5, 4)))

\* a prediction that leaves the baseline out
PredictedDisposalNoBaseline(hc, yc, bc) == NRound(NAdd(hc, yc))

\* lines 83-87: (hearing + year + baseline).round(0)
PredictedDisposal(hc, yc, bc) == NRound(NAdd(NAdd(hc, yc), bc))

generate_predictions(f, hw, yw, bd, min_year) ==
    LET th   == Column(f, n_total_hearings)
        fy   == Column(f, n_filing_year)
        R    == DOMAIN f.rows
        hc   == Series([r \in R |-> HearingComponent(th[r], hw)])
        yc   == Series([r \in R |-> YearComponent(fy[r], min_year, yw)])
        bc   == Series([r \in R |-> Int2Q(bd)])
        pred == Series([r \in R |-> PredictedDisposal(hc[r], yc[r], bc[r])])
    IN  AssignCols(f, << <<n_hearing_component, hc>>,
                         <<n_year_component, yc>>,
                         <<n_baseline_component, bc>>,
                         <<n_predicted_disposal, pred>>,
                         <<n_best_case_days, Series([r \in R |-> BestCase(pred[r])])>>,
                         <<n_worst_case_days, Series([r \in R |-> WorstCase(pred[r])])>> >>)

\* Series.quantile(q), q = qn/100: linear interpolation between order statistics
Quantile(col, qn) ==
    LET s == SortNums(DropNull(col))
        n == Len(s)
    IN  IF n = 0 THEN Null
        ELSE LET lo   == ((n - 1) * qn) \div 100
                 frac == Q((n - 1) * qn - lo * 100, 100)
             IN  IF frac.n = 0 THEN s[lo + 1]
                 ELSE QAdd(s[lo + 1], QMul(QSub(s[lo + 2], s[lo + 1]), frac))

\* buckets that put a value equal to a threshold in the upper bucket
delay_risk_strict(days, low_th, high_th) ==
    IF ~ IsNull(days) /\ ~ IsNull(low_th) /\ QLt(days, low_th) THEN "Low"
    ELSE IF ~ IsNull(days) /\ ~ IsNull(high_th) /\ QLt(days, high_th) THEN "Medium"
    ELSE "High"

\* lines 108-113
delay_risk(days, low_th, high_th) ==
    IF NLe(days, low_th) THEN "Low"
    ELSE IF NLe(days, high_th) THEN "Medium"
    ELSE "High"

\* an old-backlog rule without the year of grace
detect_bottleneck_oldest_year(th, fy, min_year) ==
    LET r1 == IF NGe(th, Int2Q(8)) THEN <<"High hearings">> ELSE <<>>
        r2 == IF NLe(fy, min_year) THEN <<"Old backlog">> ELSE <<>>
        reasons == r1 \o r2
    IN  IF reasons = <<>> THEN "Normal flow"
        ELSE IF Len(reasons) = 1 THEN reasons[1]
        ELSE reasons[1] \o " & " \o reasons[2]

\* lines 120-129
detect_bottleneck(th, fy, min_year) ==
    LET r1 == IF NGe(th, Int2Q(8)) THEN <<"High hearings">> ELSE <<>>
        r2 == IF NLe(fy, NAdd(min_year, Int2Q(1))) THEN <<"Old backlog">> ELSE <<>>
        reasons == r1 \o r2
    IN  IF reasons = <<>> THEN "Normal flow"
        ELSE IF Len(reasons) = 1 THEN reasons[1]
        ELSE reasons[1] \o " & " \o reasons[2]

\* one run of the page script (lines 44-131); cases is what the cached
\* load_cases() returns
ai_predictions_page(cases, hw, yw, bd) ==
    LET missing == SelectSeq(REQUIRED_COLS, LAMBDA c : ~ HasCol(cases, c))
    IN  IF missing # <<>> THEN [k |-> "stopped", missing |-> missing]
        ELSE LET min_year == ColMin(Column(cases, n_filing_year))
                 scored   == generate_predictions(cases, hw, yw, bd, min_year)
                 pred     == Column(scored, n_predicted_disposal)
                 low_th   == Quantile(pred, 33)
                 high_th  == Quantile(pred, 66)
                 th       == Column(scored, n_total_hearings)
                 fy       == Column(scored, n_filing_year)
                 R        == DOMAIN scored.rows
             IN  [k        |-> "rendered",
                  min_year |-> min_year,
                  low_th   |-> low_th,
                  high_th  |-> high_th,
                  cases    |-> AssignCols(scored,
                      << <<n_delay_risk,
                           [r \in R |-> Label(delay_risk(pred[r], low_th, high_th))]>>,
                         <<n_primary_bottleneck,
                           [r \in R |-> Label(detect_bottleneck(th[r], fy[r], min_year))]>> >>)]

(***************************************************************************)
(* Specification of the AI Predictions page                                *)
(***************************************************************************)
HeaderPredict == <<raw_cnr_number, raw_disposal_days, raw_hearing_count, raw_filing_year>>

\* the <<total_hearings, filing_year>> cells a row of the file may hold
PredictRowChoices ==
    { <<Int2Q(0), Int2Q(2019)>>, <<Int2Q(0), Int2Q(2022)>>,
      <<Int2Q(9), Int2Q(2019)>>, <<Int2Q(9), Int2Q(2022)>>,
      <<Int2Q(-20), Int2Q(2020)>>, <<Null, Null>> }

MaxPredRows == 3

PredictTable(v) ==
    [columns |-> HeaderPredict,
     rows    |-> [r \in DOMAIN v |-> <<Cnr(r), Int2Q(100 * r), v[r][1], v[r][2]>>]]

\* the slider positions explored
HearingWeights == {HearingWeightDefault, HearingWeightMax}
YearWeights    == {YearWeightDefault, YearWeightMin}
BaselineDelays == {BaselineDelayDefault, BaselineDelayMin}

\* the page as first rendered: load_cases() has cleaned the file (and is cached
\* from then on), the sliders are at their defaults
InitPredict ==
    /\ \E v \in SeqsOf(PredictRowChoices, 0, MaxPredRows) : csv = PredictTable(v)
    /\ df = clean_cases(csv)
    /\ hearing_weight = HearingWeightDefault
    /\ year_weight = YearWeightDefault
    /\ baseline_delay = BaselineDelayDefault
    /\ result = ai_predictions_page(df, hearing_weight, year_weight, baseline_delay)
    /\ pc = "rendered"
    /\ csv2 = NoFrame
    /\ result2 = NoResult
    /\ contamination = 0
    /\ today = 0
    /\ NoWeb

\* moving a slider reruns the script
SetHearingWeight ==
    \E w \in HearingWeights \ {hearing_weight} :
        /\ hearing_weight' = w
        /\ result' = ai_predictions_page(df, w, year_weight, baseline_delay)
        /\ UNCHANGED <<web, csv, csv2, df, result2, year_weight, baseline_delay,
                       contamination, today, pc>>

SetYearWeight ==
    \E w \in YearWeights \ {year_weight} :
        /\ year_weight' = w
        /\ result' = ai_predictions_page(df, hearing_weight, w, baseline_delay)
        /\ UNCHANGED <<web, csv, csv2, df, result2, hearing_weight, baseline_delay,
                       contamination, today, pc>>

SetBaselineDelay ==
    \E b \in BaselineDelays \ {baseline_delay} :
        /\ baseline_delay' = b
        /\ result' = ai_predictions_page(df, hearing_weight, year_weight, b)
        /\ UNCHANGED <<web, csv, csv2, df, result2, hearing_weight, year_weight,
                       contamination, today, pc>>

NextPredict == SetHearingWeight \/ SetYearWeight \/ SetBaselineDelay

SpecPredict == InitPredict /\ [][NextPredict]_vars

(***************************************************************************)
(* Claims about the disposal predictor (checked under SpecPredict)         *)
(***************************************************************************)
SlidersInRange ==
    /\ hearing_weight \in HearingWeightMin..HearingWeightMax
    /\ year_weight \in YearWeightMin..YearWeightMax
    /\ baseline_delay \in BaselineDelayMin..BaselineDelayMax

\* the rows of the rendered table
ScoredRows == IF result.k = "rendered" THEN DOMAIN result.cases.rows ELSE {}

Cell(name, r) == result.cases.rows[r][ColIdx(result.cases, name)]

\* row r went into the scorer with a hearing count >= 0 and a year >= min_year
ScorableRow(r) ==
    /\ IsNum(Cell(n_total_hearings, r))
    /\ IsNum(Cell(n_filing_year, r))
    /\ IsNum(result.min_year)
    /\ QLe(Int2Q(0), Cell(n_total_hearings, r))
    /\ QLe(result.min_year, Cell(n_filing_year, r))

\* C1: for every row with total_hearings >= 0 and filing_year >= min_year, and
\* the sliders anywhere in their ranges,
\* best_case_days <= predicted_disposal <= worst_case_days.
C1_BestPredictedWorst ==
    \A r \in ScoredRows :
        (ScorableRow(r) /\ SlidersInRange) =>
            /\ IsNum(Cell(n_best_case_days, r))
            /\ IsNum(Cell(n_predicted_disposal, r))
            /\ IsNum(Cell(n_worst_case_days, r))
            /\ QLe(Cell(n_best_case_days, r), Cell(n_predicted_disposal, r))
            /\ QLe(Cell(n_predicted_disposal, r), Cell(n_worst_case_days, r))

\* the smallest prediction (no hearings, oldest year, minimum baseline): 50 days,
\* best case 40, worst case 62 (62.5 rounds to the even 62)
C1_Witness ==
    \E r \in ScoredRows :
        /\ ScorableRow(r)
        /\ baseline_delay = BaselineDelayMin
        /\ Cell(n_best_case_days, r) = Int2Q(40)
        /\ Cell(n_predicted_disposal, r) = Int2Q(50)
        /\ Cell(n_worst_case_days, r) = Int2Q(62)

\* p is an integer nearest to x, the even one when x lies half-way
IsRounded(p, x) ==
    /\ IsNum(p) /\ p.d = 1
    /\ 2 * Abs(p.n * x.d - x.n) <= x.d
    /\ 2 * Abs(p.n * x.d - x.n) = x.d => p.n % 2 = 0

\* the filing years of the data file
RawYears ==
    LET col == RawColumn(n_filing_year)
    IN  {c \in {col[r] : r \in DOMAIN col} : IsNum(c)}

\* C2: predicted_disposal = round(total_hearings*hearing_weight
\* + (filing_year - min_year)*year_weight + baseline_delay), best_case_days =
\* round(0.8*predicted_disposal), worst_case_days = round(1.25*predicted_disposal),
\* min_year is the minimum filing_year of the loaded table, and the three stored
\* components sum to predicted_disposal when the inputs are integers.
C2_PredictionFormula ==
    /\ LET years == RawYears
       IN  (result.k = "rendered" /\ years # {}) =>
               /\ result.min_year \in years
               /\ \A y \in years : QLe(result.min_year, y)
    /\ \A r \in ScoredRows :
          (IsNum(Cell(n_total_hearings, r)) /\ IsNum(Cell(n_filing_year, r))) =>
            LET th   == Cell(n_total_hearings, r)
                fy   == Cell(n_filing_year, r)
                my   == result.min_year
                pred == Cell(n_predicted_disposal, r)
                sum  == Q(th.n * hearing_weight * fy.d * my.d
                            + (fy.n * my.d - my.n * fy.d) * year_weight * th.d
                            + baseline_delay * th.d * fy.d * my.d,
                          th.d * fy.d * my.d)
            IN  /\ IsRounded(pred, sum)
                /\ IsRounded(Cell(n_best_case_days, r), Q(4 * pred.n, 5))
                /\ IsRounded(Cell(n_worst_case_days, r), Q(5 * pred.n, 4))
                /\ (th.d = 1 /\ fy.d = 1 /\ my.d = 1) =>
                      pred = QAdd(QAdd(Cell(n_hearing_component, r),
                                       Cell(n_year_component, r)),
                                  Cell(n_baseline_component, r))

\* a row whose hearings and year were imputed (4.5 hearings, year 2020.5):
\* 4.5*20 + 1.5*5 + 100 = 197.5 gives 198, best case 158, worst case 248
C2_Witness ==
    /\ hearing_weight = 20 /\ year_weight = 5 /\ baseline_delay = 100
    /\ \E r \in ScoredRows :
          /\ Cell(n_total_hearings, r) = Q(9, 2)
          /\ Cell(n_filing_year, r) = Q(4041, 2)
          /\ result.min_year = Int2Q(2019)
          /\ Cell(n_predicted_disposal, r) = Int2Q(198)
          /\ Cell(n_best_case_days, r) = Int2Q(158)
          /\ Cell(n_worst_case_days, r) = Int2Q(248)

\* C3: predicted_disposal is monotonically non-decreasing in total_hearings and
\* in filing_year: of two rows scored with the same min_year and sliders, the one
\* with at least as many hearings and at least as late a year has at least as
\* large a prediction.
C3_Monotone ==
    \A r1, r2 \in ScoredRows :
        ( /\ IsNum(Cell(n_total_hearings, r1)) /\ IsNum(Cell(n_total_hearings, r2))
          /\ IsNum(Cell(n_filing_year, r1)) /\ IsNum(Cell(n_filing_year, r2))
          /\ QLe(Cell(n_total_hearings, r2), Cell(n_total_hearings, r1))
          /\ QLe(Cell(n_filing_year, r2), Cell(n_filing_year, r1)) ) =>
            /\ IsNum(Cell(n_predicted_disposal, r1))
            /\ IsNum(Cell(n_predicted_disposal, r2))
            /\ QLe(Cell(n_predicted_disposal, r2), Cell(n_predicted_disposal, r1))

\* one row differs from another only by a later year, one only by more
\* hearings, and each has the strictly larger prediction
C3_Witness ==
    \E r1, r2, r3 \in ScoredRows :
        /\ Cell(n_total_hearings, r1) = Cell(n_total_hearings, r2)
        /\ IsNum(Cell(n_total_hearings, r1))
        /\ IsNum(Cell(n_filing_year, r1)) /\ IsNum(Cell(n_filing_year, r2))
        /\ QLt(Cell(n_filing_year, r2), Cell(n_filing_year, r1))
        /\ QLt(Cell(n_predicted_disposal, r2), Cell(n_predicted_disposal, r1))
        /\ Cell(n_filing_year, r3) = Cell(n_filing_year, r2)
        /\ IsNum(Cell(n_total_hearings, r3))
        /\ QLt(Cell(n_total_hearings, r2), Cell(n_total_hearings, r3))
        /\ QLt(Cell(n_predicted_disposal, r2), Cell(n_predicted_disposal, r3))

\* the k-th smallest of the non-null cells of col
KthSmallest(col, k) ==
    LET I == {r \in DOMAIN col : ~ IsNull(col[r])}
    IN  col[CHOOSE r \in I :
                /\ Cardinality({q \in I : QLt(col[q], col[r])}) < k
                /\ k <= Cardinality({q \in I : QLe(col[q], col[r])})]

\* the qn-th percentile of col, linearly interpolated between the two order
\* statistics around position (n - 1) * qn / 100; null for a column of nulls
Percentile(col, qn) ==
    LET n  == Cardinality({r \in DOMAIN col : ~ IsNull(col[r])})
        lo == ((n - 1) * qn) \div 100
        w  == (n - 1) * qn - 100 * lo
    IN  IF n = 0 THEN Null
        ELSE IF w = 0 THEN KthSmallest(col, lo + 1)
        ELSE LET a == KthSmallest(col, lo + 1)
                 b == KthSmallest(col, lo + 2)
             IN  Q(a.n * b.d * (100 - w) + b.n * a.d * w, 100 * a.d * b.d)

\* the predicted_disposal column of the rendered table
Predicted == [r \in ScoredRows |-> Cell(n_predicted_disposal, r)]

\* C13: with p33 and p66 the 33rd and 66th percentiles (linearly interpolated)
\* of predicted_disposal over the table, every row is labelled 'Low' when its
\* prediction is <= p33, 'Medium' when it is above p33 and <= p66, and 'High'
\* otherwise; a prediction equal to a threshold is in the lower bucket.
C13_DelayRiskBuckets ==
    ScoredRows # {} =>
        LET pred == Predicted
            p33  == Percentile(pred, 33)
            p66  == Percentile(pred, 66)
            le(a, b) == IsNum(a) /\ IsNum(b) /\ QLe(a, b)
        IN  \A r \in ScoredRows :
                Cell(n_delay_risk, r) =
                    Label(IF le(pred[r], p33) THEN "Low"
                          ELSE IF le(pred[r], p66) THEN "Medium"
                          ELSE "High")

\* three rows, the first predicted lower than the other two: the 66th
\* percentile is the prediction of the last two rows, which are 'Medium'
C13_Witness ==
    /\ Len(csv.rows) = 3 /\ result.k = "rendered"
    /\ Cell(n_delay_risk, 1) = Label("Low")
    /\ Cell(n_delay_risk, 2) = Label("Medium")
    /\ Cell(n_delay_risk, 3) = Label("Medium")
    /\ Cell(n_predicted_disposal, 3) = result.high_th
    /\ QLt(result.low_th, result.high_th)

\* C14: primary_bottleneck is 'High hearings & Old backlog' when
\* total_hearings >= 8 and filing_year <= min_year + 1, 'High hearings' when only
\* the first holds, 'Old backlog' when only the second holds and 'Normal flow'
\* when neither does, min_year being the smallest filing_year of the table.
C14_PrimaryBottleneck ==
    ScoredRows # {} =>
        LET years    == [r \in ScoredRows |-> Cell(n_filing_year, r)]
            min_year == IF \A r \in ScoredRows : IsNull(years[r]) THEN Null
                        ELSE KthSmallest(years, 1)
            many(r)  == /\ IsNum(Cell(n_total_hearings, r))
                        /\ QLe(Int2Q(8), Cell(n_total_hearings, r))
            old(r)   == /\ IsNum(years[r])
                        /\ QLe(years[r], QAdd(min_year, Int2Q(1)))
        IN  \A r \in ScoredRows :
                Cell(n_primary_bottleneck, r) =
                    Label(IF many(r) /\ old(r) THEN "High hearings & Old backlog"
                          ELSE IF many(r) THEN "High hearings"
                          ELSE IF old(r) THEN "Old backlog"
                          ELSE "Normal flow")

\* three of the labels on three rows: nine hearings in the oldest year, a row
\* of the year after it, nine hearings three years after the oldest year
C14_Witness ==
    /\ Len(csv.rows) = 3 /\ result.k = "rendered"
    /\ result.min_year = Int2Q(2019)
    /\ Cell(n_primary_bottleneck, 1) = Label("High hearings & Old backlog")
    /\ Cell(n_filing_year, 2) = Int2Q(2020)
    /\ Cell(n_primary_bottleneck, 2) = Label("Old backlog")
    /\ Cell(n_filing_year, 3) = Int2Q(2022)
    /\ Cell(n_primary_bottleneck, 3) = Label("High hearings")

(***************************************************************************)
(* Judge dashboard: health and priority scores                             *)
(***************************************************************************)
n_age_days          == "age_days"
n_case_health_score == "case_health_score"
n_priority_score    == "priority_score"

\* str.contains(sub) on the characters of s
str_contains(s, sub) ==
    \E i \in 0..(Len(s) - Len(sub)) : \A j \in DOMAIN sub : s[i + j] = sub[j]

\* line 92: current_status.str.lower().str.contains("disposed", na=False)
IsDisposed(c) ==
    c.k = "text" /\ str_contains(str_lower(c.s), <<"d","i","s","p","o","s","e","d">>)

\* np.clip
Clip(a, lo, hi) == IF QLt(a, lo) THEN lo ELSE IF QLt(hi, a) THEN hi ELSE a

\* Series.round(1)
Round1(a) == Q(RoundHalfEven(QMul(a, Int2Q(10))), 10)

\* line 88: (today - date_filed).dt.days.fillna(0)
AgeDays(now, filed) == IF filed.k = "date" THEN Int2Q(now - filed.day) ELSE Int2Q(0)

\* a health score whose age term is not clipped
CaseHealthScoreUnclipped(age, status) ==
    Round1(QAdd(QMul(Q(1, 2), QSub(Int2Q(100), QMul(age, Q(1, 5)))),
                QMul(Q(3, 10), IF IsDisposed(status) THEN Int2Q(100) ELSE Int2Q(60))))

\* lines 90-93
CaseHealthScore(age, status) ==
    Round1(QAdd(QMul(Q(1, 2),
                     Clip(QSub(Int2Q(100), QMul(age, Q(1, 5))), Int2Q(0), Int2Q(100))),
                QMul(Q(3, 10), IF IsDisposed(status) THEN Int2Q(100) ELSE Int2Q(60))))

\* lines 95-98
PriorityScore(age, health) ==
    Round1(QAdd(QMul(Q(3, 5), QSub(Int2Q(100), health)),
                QMul(Q(2, 5), Clip(QMul(age, Q(1, 10)), Int2Q(0), Int2Q(100)))))

\* the .str accessor exists on a column of strings only: a column without a
\* single string is float64 and .str raises AttributeError
HasStr(f, name) == ~ IsNumericCol(f, ColIdx(f, name))

\* lines 86-98 on the loaded frame; a frame without date_filed or
\* current_status raises KeyError, a current_status column without a single
\* string raises AttributeError
judge_scores(f, now) ==
    IF ~ (HasCol(f, n_date_filed) /\ HasCol(f, n_current_status))
    THEN [k |-> "KeyError"]
    ELSE IF ~ HasStr(f, n_current_status)
    THEN [k |-> "AttributeError"]
    ELSE LET R      == DOMAIN f.rows
             raw    == Column(f, n_date_filed)
             filed  == Series([r \in R |-> to_datetime(raw[r])])
             status == Column(f, n_current_status)
             age    == Series([r \in R |-> AgeDays(now, filed[r])])
             health == Series([r \in R |-> CaseHealthScore(age[r], status[r])])
         IN  [k     |-> "rendered",
              cases |-> AssignCols(f,
                  << <<n_date_filed, filed>>,
                     <<n_age_days, age>>,
                     <<n_case_health_score, health>>,
                     <<n_priority_score,
                       [r \in R |-> PriorityScore(age[r], health[r])]>> >>)]

(***************************************************************************)
(* Anomaly detection page                                                  *)
(*                                                                         *)
(* sklearn's IsolationForest is modelled by its algorithm: n_estimators    *)
(* isolation trees, each grown on all rows (max_samples = min(256, n),     *)
(* drawn without replacement) to depth ceil(log2 n) by splitting a node on *)
(* a randomly drawn non-constant feature at a randomly drawn value between *)
(* its minimum and maximum.  Every random draw comes from a generator      *)
(* seeded with random_state.  The score of a row is a strictly increasing  *)
(* function of its mean path length; the model keeps the mean path length  *)
(* itself (harmonic numbers taken exactly), which flags the same rows.     *)
(***************************************************************************)
n_anomaly_flag   == "anomaly_flag"
n_anomaly_score  == "anomaly_score"
n_anomaly_reason == "anomaly_reason"
n_severity       == "severity"

n_estimators == 200
random_state == 42

\* slider "Expected Anomaly Ratio": its default, in hundredths
ContaminationDefault == 5

Bool(b) == [k |-> "bool", v |-> b]

\* a > b on floats: False when either is NaN
NGt(a, b) == ~ IsNull(a) /\ ~ IsNull(b) /\ QLt(b, a)

\* draw i of estimator t from the generator seeded with seed
Draw(seed, t, i) == ((seed + 31 * t + 7 * i) * 37 + 11 * t) % 1009

RECURSIVE Harmonic(_)
Harmonic(n) == IF n = 0 THEN Int2Q(0) ELSE QAdd(Harmonic(n - 1), Q(1, n))

\* average path length of an unsuccessful search among n points
AveragePathLength(n) ==
    IF n <= 1 THEN Int2Q(0)
    ELSE QSub(QMul(Int2Q(2), Harmonic(n - 1)), Q(2 * (n - 1), n))

RECURSIVE CeilLog2(_)
CeilLog2(n) == IF n <= 1 THEN 0 ELSE 1 + CeilLog2((n + 1) \div 2)

\* the one element of a singleton set; The({e(x) : x \in {v}}) is e with x
\* bound to the value of v
The(S) == CHOOSE x \in S : TRUE

\* the <<row, path length>> pairs of one estimator for the rows S of a node;
\* node numbers the nodes of the tree (root 1, children 2*node and 2*node + 1)
RECURSIVE TreePaths(_, _, _, _, _, _, _)
TreePaths(X, S, seed, t, node, depth, max_depth) ==
    LET any  == CHOOSE a \in S : TRUE
        open == SelectSeq([j \in DOMAIN X[any] |-> j],
                          LAMBDA j : \E a \in S : X[a][j] # X[any][j])
    IN  IF Cardinality(S) <= 1 \/ depth >= max_depth \/ open = <<>>
        THEN LET h == QAdd(Int2Q(depth), AveragePathLength(Cardinality(S)))
             IN  {<<a, h>> : a \in S}
        ELSE LET j     == open[(Draw(seed, t, 2 * node) % Len(open)) + 1]
                 lo    == CHOOSE a \in S : \A b \in S : QLe(X[a][j], X[b][j])
                 hi    == CHOOSE a \in S : \A b \in S : QLe(X[b][j], X[a][j])
                 u     == (Draw(seed, t, 2 * node + 1) % 9) + 1
                 split == QAdd(X[lo][j], QMul(QSub(X[hi][j], X[lo][j]), Q(u, 10)))
             IN  UNION { TreePaths(X, side, seed, t,
                                   IF lo \in side THEN 2 * node ELSE 2 * node + 1,
                                   depth + 1, max_depth) :
                         side \in {{a \in S : QLe(X[a][j], sp)} : sp \in {split}}
                                  \cup {{a \in S : ~ QLe(X[a][j], sp)} : sp \in {split}} }

RECURSIVE WeightedSum(_, _)
WeightedSum(vals, hs) ==
    IF vals = {} THEN Int2Q(0)
    ELSE LET v == CHOOSE x \in vals : TRUE
         IN  QAdd(QMul(v, Int2Q(Cardinality({h \in hs : h[3] = v}))),
                  WeightedSum(vals \ {v}, hs))

\* per row, the mean path length over the estimators of a forest fitted on X
MeanPathLengths(X, seed) ==
    The({ [r \in DOMAIN X |->
             The({ QMul(WeightedSum({h[3] : h \in hs}, hs), Q(1, n_estimators)) :
                   hs \in {{h \in all : h[2] = r}} })] :
          all \in { UNION { {<<t, p[1], p[2]>> :
                             p \in TreePaths(X, DOMAIN X, seed, t, 1, 0, CeilLog2(Len(X)))} :
                            t \in 1..n_estimators } } })

\* the seed the forest is built with; entropy is what an unseeded generator
\* would read from the operating system
ForestSeedFromEntropy(entropy) == entropy

\* line 97: random_state=42
ForestSeed(entropy) == random_state

\* the numeric columns of f as a feature matrix (rows of cells)
numeric_matrix(f) ==
    The({ Series([r \in DOMAIN f.rows |-> [a \in DOMAIN cols |-> f.rows[r][cols[a]]]]) :
          cols \in {SelectSeq([i \in DOMAIN f.columns |-> i],
                              LAMBDA i : IsNumericCol(f, i))} })

\* lines 94-103 on feature matrix X; fit raises ValueError on a NaN feature
fit_predict(f, X, cont, entropy) ==
    IF \E r \in DOMAIN X : \E a \in DOMAIN X[r] : IsNull(X[r][a])
    THEN [k |-> "ValueError"]
    ELSE The({ AssignCols(f,
                 << <<n_anomaly_flag,
                      [r \in DOMAIN X |-> Bool(QLt(score[r], Quantile(score, cont)))]>>,
                    <<n_anomaly_score,
                      [r \in DOMAIN X |-> QSub(score[r], Quantile(score, cont))]>> >>) :
               score \in {Series(MeanPathLengths(X, ForestSeed(entropy)))} })

\* lines 87-105
detect_anomalies(f, cont, entropy) ==
    IF numeric_cols(f) = {} THEN f
    ELSE The({ fit_predict(f, X, cont, entropy) : X \in {numeric_matrix(f)} })

\* df.get(name, pd.Series()).quantile(q): NaN when the column is absent
QuantileOf(f, name, qn) == IF HasCol(f, name) THEN Quantile(Column(f, name), qn) ELSE Null

\* row.get(name, 0)
RowGet(f, r, name) == IF HasCol(f, name) THEN f.rows[r][ColIdx(f, name)] ELSE Int2Q(0)

\* a severity that stays with the first rule that fired
severity_first_rule(long, many) ==
    IF long THEN "High" ELSE IF many THEN "Critical" ELSE "Low"

\* lines 117, 121, 125: s = "Low", then "High" after the duration rule, then
\* "Critical" after the hearings rule
severity(long, many) ==
    LET s0 == "Low"
        s1 == IF long THEN "High" ELSE s0
    IN  IF many THEN "Critical" ELSE s1

\* lines 111-136 (clean_cases has always created case_duration)
explain_anomalies(f) ==
    LET R     == DOMAIN f.rows
        q_dur == Quantile(Column(f, n_case_duration), 90)
        q_hea == QuantileOf(f, n_total_hearings, 95)
        q_dis == QuantileOf(f, n_disposal_days, 95)
        long(r)  == NGt(RowGet(f, r, n_case_duration), q_dur)
        many(r)  == NGt(RowGet(f, r, n_total_hearings), q_hea)
        slow(r)  == NGt(RowGet(f, r, n_disposal_days), q_dis)
        parts(r) == (IF long(r) THEN <<"Unusually long case duration">> ELSE <<>>)
                    \o (IF many(r) THEN <<"Excessive number of hearings">> ELSE <<>>)
                    \o (IF slow(r) THEN <<"Abnormally high disposal days">> ELSE <<>>)
        join(p)  == IF p = <<>> THEN "Statistical outlier pattern"
                    ELSE IF Len(p) = 1 THEN p[1]
                    ELSE IF Len(p) = 2 THEN p[1] \o ", " \o p[2]
                    ELSE p[1] \o ", " \o p[2] \o ", " \o p[3]
    IN  AssignCols(f,
            << <<n_anomaly_reason, [r \in R |-> Label(join(parts(r)))]>>,
               <<n_severity,
                 [r \in R |-> Label(severity(long(r), many(r)))]>> >>)

\* run_dashboard (lines 142-153); cont is the slider value
run_dashboard(cases, cont, entropy) ==
    The({ IF "k" \in DOMAIN found THEN found
          ELSE IF ~ HasCol(found, n_anomaly_flag) THEN [k |-> "KeyError"]
          ELSE [k |-> "rendered", cases |-> explain_anomalies(found)] :
          found \in {detect_anomalies(cleaned, cont, entropy) :
                     cleaned \in {clean_cases(cases)}} })

(***************************************************************************)
(* The whole pipeline on one data file                                     *)
(***************************************************************************)
raw_current_status == <<"C","u","r","r","e","n","t","_","S","t","a","t","u","s">>

HeaderCases ==
    <<raw_cnr_number, raw_date_filed, raw_decision_date, raw_current_status,
      raw_hearing_count, raw_filing_year, raw_disposal_days>>

st_disposed == <<"D","i","s","p","o","s","e","d">>
st_pending  == <<"P","e","n","d","i","n","g">>

\* sample rows of the file:
\* <<date_filed, decision_date, current_status, total_hearings, filing_year>>
CaseRowSamples ==
    << <<Text(d_2020_01_15), Text(d_2020_02_29), Text(st_disposed), Int2Q(0), Int2Q(2019)>>,
       <<Text(d_2020_01_15), Text(d_2020_03_01), Text(st_pending), Int2Q(9), Int2Q(2022)>>,
       <<Text(d_2019_12_31), Text(d_2020_03_01), Text(st_pending), Null, Null>>,
       <<Text(d_2020_13_01), Text(d_2020_03_01), Null, Int2Q(9), Int2Q(2019)>>,
       <<Text(d_2020_01_15), Text(d_2020_02_29), Text(st_pending), Int2Q(0), Int2Q(2022)>> >>

CaseRowChoices == {CaseRowSamples[i] : i \in DOMAIN CaseRowSamples}

\* the rows used where the whole pipeline runs
RunRowChoices == {CaseRowSamples[i] : i \in 1..3}

CaseRow(r, x) == <<Cnr(r), x[1], x[2], x[3], x[4], x[5], Int2Q(100 * r)>>

CaseTable(v) == [columns |-> HeaderCases, rows |-> [r \in DOMAIN v |-> CaseRow(r, v[r])]]

\* the day the pages are first opened, and the day after
FirstDay == DaysFromCivil(2020, 3, 2)
NextDay  == FirstDay + 1

\* what an unseeded generator could read from the operating system
OsEntropy == {1, 2}

\* pages whose baseline delay grows with the number of rows of the file
score_pages_counting_rows(cases, hw, yw, bd, now) ==
    The({ [today       |-> now,
           predictions |-> ai_predictions_page(cleaned, hw, yw, bd + Len(cases.rows)),
           judge       |-> judge_scores(cleaned, now)] :
          cleaned \in {clean_cases(cases)} })

\* the AI Predictions page and the Judge dashboard on the cleaned file
score_pages(cases, hw, yw, bd, now) ==
    The({ [today       |-> now,
           predictions |-> ai_predictions_page(cleaned, hw, yw, bd),
           judge       |-> judge_scores(cleaned, now)] :
          cleaned \in {clean_cases(cases)} })

\* every page once
run_pipeline(cases, hw, yw, bd, cont, now, entropy) ==
    The({ [today       |-> now,
           predictions |-> ai_predictions_page(cleaned, hw, yw, bd),
           judge       |-> judge_scores(cleaned, now),
           anomalies   |-> run_dashboard(cases, cont, entropy)] :
          cleaned \in {clean_cases(cases)} })

(***************************************************************************)
(* Specification: the pipeline run twice on the same file                  *)
(***************************************************************************)
MaxRunRows == 3

InitRerun ==
    /\ \E v \in SeqsOf(RunRowChoices, 1, MaxRunRows) : csv = CaseTable(v)
    /\ contamination = ContaminationDefault
    /\ hearing_weight = HearingWeightDefault
    /\ year_weight = YearWeightDefault
    /\ baseline_delay = BaselineDelayDefault
    /\ today = FirstDay
    /\ pc = "loaded"
    /\ df = NoFrame
    /\ csv2 = NoFrame
    /\ result = NoResult
    /\ result2 = NoResult
    /\ NoWeb

FirstRun ==
    /\ pc = "loaded"
    /\ \E e \in OsEntropy :
          result' = run_pipeline(csv, hearing_weight, year_weight, baseline_delay,
                                 contamination, today, e)
    /\ pc' = "ran"
    /\ UNCHANGED <<web, csv, csv2, df, result2, hearing_weight, year_weight,
                   baseline_delay, contamination, today>>

SecondRun ==
    /\ pc = "ran"
    /\ \E e \in OsEntropy :
          result2' = run_pipeline(csv, hearing_weight, year_weight, baseline_delay,
                                  contamination, today, e)
    /\ pc' = "reran"
    /\ UNCHANGED <<web, csv, csv2, df, result, hearing_weight, year_weight,
                   baseline_delay, contamination, today>>

\* the date changes
Midnight ==
    /\ today < NextDay
    /\ today' = today + 1
    /\ UNCHANGED <<web, csv, csv2, df, result, result2, hearing_weight, year_weight,
                   baseline_delay, contamination, pc>>

NextRerun == FirstRun \/ SecondRun \/ Midnight

SpecRerun == InitRerun /\ [][NextRerun]_vars

(***************************************************************************)
(* Claims about repeated runs (checked under SpecRerun)                    *)
(***************************************************************************)
\* the tables a run put on the pages
OutputTables(run) == <<run.predictions, run.judge, run.anomalies>>

\* C4 as stated: two runs of the whole pipeline on the same input table and the
\* same control parameters yield identical output tables.
C4_RerunIdentical ==
    pc = "reran" => OutputTables(result) = OutputTables(result2)

\* C4: two runs of the whole pipeline on the same input table, with the same
\* control parameters and on the same calendar day, yield identical output
\* tables; between runs on different days only the Judge dashboard's table
\* (age_days, case_health_score, priority_score) can differ.
C4_RerunIdenticalSameDay ==
    pc = "reran" =>
        /\ result.predictions = result2.predictions
        /\ result.anomalies = result2.anomalies
        /\ result.today = result2.today => result.judge = result2.judge

\* both runs on the first day, two rows scored and one of them flagged by the
\* forest, the disposed case filed 47 days earlier at health 75.3
C4_Witness ==
    /\ pc = "reran"
    /\ result.today = FirstDay /\ result2.today = FirstDay
    /\ result2.anomalies.k = "rendered"
    /\ \E r \in DOMAIN result2.anomalies.cases.rows :
          result2.anomalies.cases.rows[r][ColIdx(result2.anomalies.cases, n_anomaly_flag)]
              = Bool(TRUE)
    /\ result2.judge.k = "rendered"
    /\ \E r \in DOMAIN result2.judge.cases.rows :
          /\ result2.judge.cases.rows[r][ColIdx(result2.judge.cases, n_age_days)] = Int2Q(47)
          /\ result2.judge.cases.rows[r][ColIdx(result2.judge.cases, n_case_health_score)]
                = Q(753, 10)
    /\ result = result2

\* the table the Anomaly Detection page shows after the first run
Explained == result.anomalies.cases

ExplainedCell(name, r) == Explained.rows[r][ColIdx(Explained, name)]

\* the cell of row r exceeds the qn-th percentile of its column
Exceeds(name, r, qn) ==
    LET col == [q \in DOMAIN Explained.rows |-> ExplainedCell(name, q)]
        p   == Percentile(col, qn)
    IN  IsNum(col[r]) /\ IsNum(p) /\ QLt(p, col[r])

\* C15: severity is 'Critical' whenever the hearings rule fires (total_hearings
\* above its 95th percentile), whether or not the duration rule fired; 'High'
\* when only the duration rule fires (case_duration above its 90th
\* percentile); 'Low' otherwise.  The disposal-days rule adds its reason and
\* leaves the severity alone, and a row no rule fires on has the reason
\* 'Statistical outlier pattern' and severity 'Low'.
C15_SeverityPrecedence ==
    (pc # "loaded" /\ result.anomalies.k = "rendered") =>
        \A r \in DOMAIN Explained.rows :
            LET long == Exceeds(n_case_duration, r, 90)
                many == Exceeds(n_total_hearings, r, 95)
                slow == Exceeds(n_disposal_days, r, 95)
                text == (IF long THEN <<"Unusually long case duration">> ELSE <<>>)
                        \o (IF many THEN <<"Excessive number of hearings">> ELSE <<>>)
                        \o (IF slow THEN <<"Abnormally high disposal days">> ELSE <<>>)
            IN  /\ ExplainedCell(n_severity, r) =
                      Label(IF many THEN "Critical" ELSE IF long THEN "High" ELSE "Low")
                /\ ExplainedCell(n_anomaly_reason, r) =
                      Label(IF text = <<>> THEN "Statistical outlier pattern"
                            ELSE IF Len(text) = 1 THEN text[1]
                            ELSE IF Len(text) = 2 THEN text[1] \o ", " \o text[2]
                            ELSE text[1] \o ", " \o text[2] \o ", " \o text[3])

\* a row both the duration rule and the hearings rule fire on is 'Critical',
\* next to a row without a reason
C15_Witness ==
    /\ pc # "loaded" /\ result.anomalies.k = "rendered"
    /\ Len(Explained.rows) = 2
    /\ ExplainedCell(n_anomaly_reason, 1) = Label("Statistical outlier pattern")
    /\ ExplainedCell(n_severity, 1) = Label("Low")
    /\ Exceeds(n_case_duration, 2, 90)
    /\ Exceeds(n_total_hearings, 2, 95)
    /\ ExplainedCell(n_severity, 2) = Label("Critical")

(***************************************************************************)
(* Specification: the data file edited around its first row                *)
(*                                                                         *)
(* csv is the file as first loaded and result the pages rendered from it;  *)
(* csv2 is the file after rows other than the first were added, removed or *)
(* changed, and result2 the pages rendered from csv2 on the same day with  *)
(* the same sliders.                                                       *)
(***************************************************************************)
MaxEditRows == 2

\* the sample cells of a row of the file
RowSample(row) == <<row[2], row[3], row[4], row[5], row[6]>>

RowSamples(f) == [r \in DOMAIN f.rows |-> RowSample(f.rows[r])]

\* s without its i-th element
RemoveAt(s, i) == SubSeq(s, 1, i - 1) \o SubSeq(s, i + 1, Len(s))

InitEdit ==
    /\ \E v \in SeqsOf(CaseRowChoices, 1, MaxEditRows) : csv = CaseTable(v)
    /\ csv2 = csv
    /\ hearing_weight = HearingWeightDefault
    /\ year_weight = YearWeightDefault
    /\ baseline_delay = BaselineDelayDefault
    /\ contamination = ContaminationDefault
    /\ today = FirstDay
    /\ result = score_pages(csv, hearing_weight, year_weight, baseline_delay, today)
    /\ result2 = result
    /\ df = NoFrame
    /\ pc = "rendered"
    /\ NoWeb

\* the edited file is loaded and the pages rendered from it
Reload(v) ==
    /\ csv2' = CaseTable(v)
    /\ result2' = score_pages(csv2', hearing_weight, year_weight, baseline_delay, today)
    /\ UNCHANGED <<web, csv, df, result, hearing_weight, year_weight, baseline_delay,
                   contamination, today, pc>>

AddRow ==
    /\ Len(csv2.rows) < MaxEditRows
    /\ \E x \in CaseRowChoices : Reload(Append(RowSamples(csv2), x))

RemoveRow ==
    \E i \in 2..Len(csv2.rows) : Reload(RemoveAt(RowSamples(csv2), i))

ChangeRow ==
    \E i \in 2..Len(csv2.rows) : \E x \in CaseRowChoices \ {RowSample(csv2.rows[i])} :
        Reload([RowSamples(csv2) EXCEPT ![i] = x])

NextEdit == AddRow \/ RemoveRow \/ ChangeRow

SpecEdit == InitEdit /\ [][NextEdit]_vars

(***************************************************************************)
(* Claims about row locality (checked under SpecEdit)                      *)
(***************************************************************************)
\* the cell of the first row under column name in a rendered table
FirstRowCell(page, name) == page.cases.rows[1][ColIdx(page.cases, name)]

\* the derived numeric fields of the first row
DerivedFields(run) ==
    << FirstRowCell(run.predictions, n_total_hearings),
       FirstRowCell(run.predictions, n_filing_year),
       FirstRowCell(run.predictions, n_case_duration),
       FirstRowCell(run.predictions, n_predicted_disposal),
       FirstRowCell(run.predictions, n_best_case_days),
       FirstRowCell(run.predictions, n_worst_case_days),
       IF run.judge.k = "rendered"
       THEN <<FirstRowCell(run.judge, n_case_health_score),
              FirstRowCell(run.judge, n_priority_score)>>
       ELSE <<>> >>

RawFirstRowCell(f, raw) == f.rows[1][CHOOSE i \in DOMAIN f.columns : f.columns[i] = raw]

\* the file's columns behind total_hearings and filing_year
ScoredInputs == {<<raw_hearing_count, n_total_hearings>>, <<raw_filing_year, n_filing_year>>}

n_combined_case_number   == "combined_case_number"
n_case_number            == "case_number"
n_combinedcasenumber     == "combinedcasenumber"
n_beforehonourablejudges == "beforehonourablejudges"
n_njdg_judge_name        == "njdg_judge_name"
n_judge                  == "judge"
n_petitioneradvocate     == "petitioneradvocate"
n_respondentadvocate     == "respondentadvocate"

\* lines 56-57
case_keys    == <<n_combined_case_number, n_cnr_number, n_case_number>>
hearing_keys == <<n_combinedcasenumber, n_cnr_number, n_case_number>>

\* line 54: hearings.columns.str.lower().str.strip().  (Line 53 does the same
\* to the cleaned cases, whose names normalize_columns has stripped and
\* lowered already: it changes none of them.)
lower_strip(f) ==
    [f EXCEPT !.columns =
        [i \in DOMAIN f.columns |-> JoinChars(str_strip(str_lower(f.columns[i])))]]

\* a key search that keeps the last candidate found
next_key_last(keys, f) ==
    LET present == SelectSeq(keys, LAMBDA k : HasCol(f, k))
    IN  IF present = <<>> THEN <<>> ELSE <<present[Len(present)]>>

\* lines 59-60: next((k for k in keys if k in f.columns), None); None is <<>>
next_key(keys, f) ==
    LET present == SelectSeq(keys, LAMBDA k : HasCol(f, k))
    IN  IF present = <<>> THEN <<>> ELSE <<Head(present)>>

\* the sequences of s one after another
RECURSIVE Flatten(_)
Flatten(s) == IF s = <<>> THEN <<>> ELSE Head(s) \o Flatten(Tail(s))

\* pd.merge(cases, hearings, left_on, right_on, how, suffixes=("_case","_hear")):
\* case rows in their order, each joined to the hearing rows with an equal key
\* (pandas joins a null key to a null key); when both keys have one name the
\* result has a single key column; any other name the two frames share gets
\* the suffixes
merge(cases, hearings, left_key, right_key, how) ==
    LET lk         == ColIdx(cases, left_key)
        rk         == ColIdx(hearings, right_key)
        kept       == SelectSeq([i \in DOMAIN hearings.columns |-> i],
                                LAMBDA i : ~ (left_key = right_key /\ i = rk))
        overlap(c) == /\ HasCol(cases, c) /\ HasCol(hearings, c)
                      /\ ~ (c = left_key /\ c = right_key)
        header     == [i \in DOMAIN cases.columns |->
                          IF overlap(cases.columns[i])
                          THEN cases.columns[i] \o "_case" ELSE cases.columns[i]]
                      \o [a \in DOMAIN kept |->
                          IF overlap(hearings.columns[kept[a]])
                          THEN hearings.columns[kept[a]] \o "_hear"
                          ELSE hearings.columns[kept[a]]]
        found(r)   == SelectSeq(hearings.rows, LAMBDA h : h[rk] = cases.rows[r][lk])
        joined(r)  == IF found(r) = <<>>
                      THEN IF how = "left"
                           THEN << cases.rows[r] \o [a \in DOMAIN kept |-> Null] >>
                           ELSE <<>>
                      ELSE [j \in DOMAIN found(r) |->
                              cases.rows[r] \o [a \in DOMAIN kept |-> found(r)[j][kept[a]]]]
    IN  [columns |-> header,
         rows    |-> Flatten([r \in DOMAIN cases.rows |-> joined(r)])]

\* a join that keeps only the cases with a hearing
merge_inner(cases, hearings, left_key, right_key) ==
    merge(cases, hearings, left_key, right_key, "inner")

\* lines 65-72
merge_left(cases, hearings, left_key, right_key) ==
    merge(cases, hearings, left_key, right_key, "left")

\* lines 74-77: merged.get("beforehonourablejudges",
\*                         merged.get("njdg_judge_name", "UNKNOWN"))
judge_column(merged) ==
    IF HasCol(merged, n_beforehonourablejudges)
    THEN Column(merged, n_beforehonourablejudges)
    ELSE IF HasCol(merged, n_njdg_judge_name)
    THEN Column(merged, n_njdg_judge_name)
    ELSE [r \in DOMAIN merged.rows |-> Text(<<"U","N","K","N","O","W","N">>)]

\* lines 56-77 on the cleaned frames: the merged frame with its judge column,
\* or the ValueError of line 63
merge_on_keys(cases, hearings) ==
    LET left_key  == next_key(case_keys, cases)
        right_key == next_key(hearing_keys, hearings)
    IN  IF left_key = <<>> \/ right_key = <<>>
        THEN [k       |-> "ValueError",
              message |-> "No common merge key found between cases and hearings"]
        ELSE The({ SetCol(merged, n_judge, judge_column(merged)) :
                   merged \in {merge_left(cases, hearings, left_key[1], right_key[1])} })

\* lines 47-79, on the two files as clean_cases and clean_hearings get and
\* return them
load_all(case_file, hearing_file) ==
    The({ merge_on_keys(io[1], io[2]) :
          io \in {<<clean_cases(case_file), lower_strip(hearing_file)>>} })

IsError(v) == "k" \in DOMAIN v /\ v.k \in {"KeyError", "AttributeError", "ValueError"}

char_upper(c) ==
    IF \E i \in DOMAIN LowerChars : LowerChars[i] = c
    THEN UpperChars[CHOOSE i \in DOMAIN LowerChars : LowerChars[i] = c]
    ELSE c

\* str.upper()
str_upper(s) == [i \in DOMAIN s |-> char_upper(s[i])]

\* the rows of f a test keeps, as a frame
Filter(f, test(_)) ==
    LET keep == SelectSeq([r \in DOMAIN f.rows |-> r], test)
    IN  [f EXCEPT !.rows = [a \in DOMAIN keep |-> f.rows[keep[a]]]]

\* a judge context that keeps the cases of every judge
judge_context_unfiltered(f, judge) ==
    IF f.rows = <<>>
    THEN [k |-> "stopped", warning |-> "No cases found for Judge", df |-> f]
    ELSE [k |-> "rendered", cases |-> f, df |-> f]

\* Judge_Dashboard.py lines 103-108 on the scored frame; the judge names are
\* what clean_hearings returned, taken to be a column of strings and nulls
judge_context(f, judge) ==
    LET col         == Column(f, n_judge)
        judge_cases == Filter(f, LAMBDA r : /\ col[r].k = "text"
                                            /\ str_upper(col[r].s) = str_upper(judge))
    IN  IF judge_cases.rows = <<>>
        THEN [k |-> "stopped", warning |-> "No cases found for Judge", df |-> f]
        ELSE [k |-> "rendered", cases |-> judge_cases, df |-> f]

\* the Judge dashboard run once on what load_all returned or raised: the
\* scores, the judge's cases
judge_dashboard(merged, now, judge) ==
    IF IsError(merged) THEN merged
    ELSE The({ IF IsError(scored) THEN scored
               ELSE judge_context(scored.cases, judge) :
               scored \in {judge_scores(merged, now)} })

\* Lawyer_Dashboard.py lines 62-69: age_days and case_health_score
lawyer_scores(f, now) ==
    IF ~ (HasCol(f, n_date_filed) /\ HasCol(f, n_current_status))
    THEN [k |-> "KeyError"]
    ELSE IF ~ HasStr(f, n_current_status)
    THEN [k |-> "AttributeError"]
    ELSE LET R      == DOMAIN f.rows
             raw    == Column(f, n_date_filed)
             filed  == Series([r \in R |-> to_datetime(raw[r])])
             status == Column(f, n_current_status)
             age    == Series([r \in R |-> AgeDays(now, filed[r])])
         IN  [k     |-> "rendered",
              cases |-> AssignCols(f,
                  << <<n_date_filed, filed>>,
                     <<n_age_days, age>>,
                     <<n_case_health_score,
                       [r \in R |-> CaseHealthScore(age[r], status[r])]>> >>)]

\* Series.str.contains(name, case=False, na=False) for a name of letters
contains_nocase(c, name) ==
    c.k = "text" /\ str_contains(str_lower(c.s), str_lower(name))

\* Lawyer_Dashboard.py lines 74-83 on the scored frame
lawyer_context(f, lawyer) ==
    IF ~ (HasCol(f, n_petitioneradvocate) /\ HasCol(f, n_respondentadvocate))
    THEN [k |-> "KeyError"]
    ELSE IF ~ (HasStr(f, n_petitioneradvocate) /\ HasStr(f, n_respondentadvocate))
    THEN [k |-> "AttributeError"]
    ELSE LET pet       == Column(f, n_petitioneradvocate)
             resp      == Column(f, n_respondentadvocate)
             portfolio == Filter(f, LAMBDA r : \/ contains_nocase(pet[r], lawyer)
                                               \/ contains_nocase(resp[r], lawyer))
         IN  IF portfolio.rows = <<>>
             THEN [k |-> "stopped", info |-> "no_cases", df |-> f]
             ELSE [k |-> "rendered", cases |-> portfolio, df |-> f]

\* the Lawyer dashboard run once on the merged frame (or what load_all raised)
lawyer_dashboard(merged, now, lawyer) ==
    IF IsError(merged) THEN merged
    ELSE The({ IF IsError(scored) THEN scored
               ELSE lawyer_context(scored.cases, lawyer) :
               scored \in {lawyer_scores(merged, now)} })

(***************************************************************************)
(* Specification: the two dashboards on a case file and a hearing file     *)
(***************************************************************************)
raw_cnr_padded           == <<" ","C","N","R","_","N","u","m","b","e","r">>
raw_case_number          == <<"C","a","s","e","_","N","u","m","b","e","r">>
raw_combined_case_number ==
    <<"C","o","m","b","i","n","e","d","_","C","a","s","e","_","N","u","m","b","e","r">>
raw_petitioneradvocate   ==
    <<"P","e","t","i","t","i","o","n","e","r","A","d","v","o","c","a","t","e">>
raw_respondentadvocate   ==
    <<"R","e","s","p","o","n","d","e","n","t","A","d","v","o","c","a","t","e">>
raw_combinedcasenumber   ==
    <<"C","o","m","b","i","n","e","d","C","a","s","e","N","u","m","b","e","r">>
raw_judges               ==
    <<"B","e","f","o","r","e","H","o","n","o","u","r","a","b","l","e","J","u","d","g","e","s">>
raw_njdg_judge_name      ==
    <<"N","J","D","G","_","J","u","d","g","e","_","N","a","m","e">>
raw_purpose              == <<"P","u","r","p","o","s","e">>

d_2020_03_05 == <<"2","0","2","0","-","0","3","-","0","5">>   \* after FirstDay

K1 == Text(<<"K","1">>)
K2 == Text(<<"K","2">>)
K9 == Text(<<"K","9">>)

\* sample cases: <<cnr, date_filed, current_status, petitioner, respondent>>
DashCaseSamples ==
    << <<K1, Text(d_2020_01_15), Text(st_disposed), Text(<<"A","b">>), Null>>,
       <<K2, Text(d_2020_03_05), Text(st_pending), Null, Text(<<"x","A","B","y">>)>>,
       <<Null, Text(d_2020_13_01), Null, Text(<<"C","d">>), Text(<<"C","d">>)>> >>

\* sample hearings: <<case key, judge>>
DashHearingSamples ==
    << <<K1, Text(<<"R","A","O">>)>>,
       <<K9, Text(<<"S","e","n">>)>>,
       <<Null, Null>> >>

DashCaseHeader     == <<raw_cnr_number, raw_date_filed, raw_current_status,
                        raw_petitioneradvocate, raw_respondentadvocate>>
DashCaseTwoKeys    == <<raw_case_number, raw_cnr, raw_date_filed, raw_current_status>>
DashCaseCombined   == <<raw_cnr, raw_combined_case_number, raw_date_filed,
                        raw_current_status>>
DashCaseNoKey      == <<raw_court_name, raw_date_filed, raw_current_status>>
DashCaseNoFiled    == <<raw_cnr_number, raw_current_status>>

DashHearingHeader   == <<raw_cnr_padded, raw_judges>>
DashHearingCombined == <<raw_combinedcasenumber, raw_njdg_judge_name>>
DashHearingTwoKeys  == <<raw_case_number, raw_cnr_padded>>
DashHearingNoKey    == <<raw_purpose, raw_judges>>

\* the pairs of headers the two files come with
DashHeaders ==
    { <<DashCaseHeader, DashHearingHeader>>,
      <<DashCaseHeader, DashHearingCombined>>,
      <<DashCaseHeader, DashHearingNoKey>>,
      <<DashCaseTwoKeys, DashHearingTwoKeys>>,
      <<DashCaseCombined, DashHearingCombined>>,
      <<DashCaseNoKey, DashHearingHeader>>,
      <<DashCaseNoFiled, DashHearingHeader>> }

\* the cell of sample case x under a raw column name; a second identifier
\* column holds K9 in every row
DashCaseCell(name, x) ==
    IF name \in {raw_cnr_number, raw_cnr} THEN x[1]
    ELSE IF name = raw_date_filed THEN x[2]
    ELSE IF name = raw_current_status THEN x[3]
    ELSE IF name = raw_petitioneradvocate THEN x[4]
    ELSE IF name = raw_respondentadvocate THEN x[5]
    ELSE K9

DashHearingCell(name, x) ==
    IF name \in {raw_cnr_padded, raw_combinedcasenumber} THEN x[1]
    ELSE IF name \in {raw_judges, raw_njdg_judge_name} THEN x[2]
    ELSE K9

DashTable(h, v, cell(_, _)) ==
    [columns |-> h,
     rows    |-> [r \in DOMAIN v |-> [i \in DOMAIN h |-> cell(h[i], v[r])]]]

MaxDashCases    == 2
MaxDashHearings == 2

\* the users that log in
UserNames == {<<"R","a","o">>, <<"a","b">>}

InitMerge ==
    /\ \E h \in DashHeaders :
          /\ \E v \in SeqsOf({DashCaseSamples[i] : i \in DOMAIN DashCaseSamples},
                             1, MaxDashCases) :
                csv = DashTable(h[1], v, DashCaseCell)
          /\ \E v \in SeqsOf({DashHearingSamples[i] : i \in DOMAIN DashHearingSamples},
                             0, MaxDashHearings) :
                csv2 = DashTable(h[2], v, DashHearingCell)
    /\ today = FirstDay
    /\ df = NoFrame
    /\ result = NoResult
    /\ result2 = NoResult
    /\ hearing_weight = 0
    /\ year_weight = 0
    /\ baseline_delay = 0
    /\ contamination = 0
    /\ pc = "idle"
    /\ NoWeb

\* a judge opens the Judge dashboard
OpenJudgeDashboard ==
    /\ pc = "idle"
    /\ df' = load_all(csv, csv2)
    /\ \E judge \in UserNames : result' = judge_dashboard(df', today, judge)
    /\ pc' = "judge"
    /\ UNCHANGED <<web, csv, csv2, result2, hearing_weight, year_weight, baseline_delay,
                   contamination, today>>

\* a lawyer opens the Lawyer dashboard (its frame is the joined one)
OpenLawyerDashboard ==
    /\ pc = "idle"
    /\ df' = load_all(csv, csv2)
    /\ \E lawyer \in UserNames : result' = lawyer_dashboard(df', today, lawyer)
    /\ pc' = "lawyer"
    /\ UNCHANGED <<web, csv, csv2, result2, hearing_weight, year_weight, baseline_delay,
                   contamination, today>>

\* the user leaves the page: nothing of the run is kept but the files
LeavePage ==
    /\ pc # "idle"
    /\ pc' = "idle"
    /\ df' = NoFrame
    /\ result' = NoResult
    /\ result2' = NoResult
    /\ UNCHANGED <<web, csv, csv2, hearing_weight, year_weight, baseline_delay,
                   contamination, today>>

NextMerge == OpenJudgeDashboard \/ OpenLawyerDashboard \/ LeavePage

SpecMerge == InitMerge /\ [][NextMerge]_vars

(***************************************************************************)
(* Claims about the case/hearing merge (checked under SpecMerge)           *)
(***************************************************************************)
\* the two frames load_all joins
CleanedCases    == clean_cases(csv)
CleanedHearings == lower_strip(csv2)

\* the first name of order that is a column of f (0 when none is)
FirstOf(order, f) ==
    IF \A i \in DOMAIN order : ~ HasCol(f, order[i]) THEN 0
    ELSE CHOOSE i \in DOMAIN order :
            /\ HasCol(f, order[i])
            /\ \A j \in 1..(i - 1) : ~ HasCol(f, order[j])

CaseKeyOrder    == <<"combined_case_number", "cnr_number", "case_number">>
HearingKeyOrder == <<"combinedcasenumber", "cnr_number", "case_number">>

Loaded == pc # "idle" /\ ~ IsError(df)

\* C11: the merge is a left outer join: a case row with k hearing rows of an
\* equal key (a missing key equal to a missing key, as pandas joins them)
\* appears k times, each time next to one of these hearing rows, and a case
\* row with none appears exactly once with every hearing-side column null;
\* nothing else is in the merged table.
C11_LeftOuterJoin ==
    Loaded =>
        LET cases      == CleanedCases
            hearings   == CleanedHearings
            left_key   == CaseKeyOrder[FirstOf(CaseKeyOrder, cases)]
            right_key  == HearingKeyOrder[FirstOf(HearingKeyOrder, hearings)]
            lk         == ColIdx(cases, left_key)
            rk         == ColIdx(hearings, right_key)
            nc         == Len(cases.columns)
            \* the hearing-side cells of a merged row (its last cell is judge)
            side(m)    == SubSeq(df.rows[m], nc + 1, Len(df.columns) - 1)
            \* a hearing row as joined: without its key when the key has the
            \* name of the case key
            other(j)   == IF left_key = right_key
                          THEN RemoveAt(hearings.rows[j], rk) ELSE hearings.rows[j]
            matches(r) == {j \in DOMAIN hearings.rows :
                              hearings.rows[j][rk] = cases.rows[r][lk]}
            twins(r)   == {i \in DOMAIN cases.rows : cases.rows[i] = cases.rows[r]}
            copies(r)  == {m \in DOMAIN df.rows : SubSeq(df.rows[m], 1, nc) = cases.rows[r]}
        IN  /\ \A m \in DOMAIN df.rows : \E r \in DOMAIN cases.rows : m \in copies(r)
            /\ \A r \in DOMAIN cases.rows :
                  IF matches(r) = {}
                  THEN /\ Cardinality(copies(r)) = Cardinality(twins(r))
                       /\ \A m \in copies(r) :
                             \A p \in DOMAIN side(m) : side(m)[p] = Null
                  ELSE /\ Cardinality(copies(r))
                             = Cardinality(twins(r)) * Cardinality(matches(r))
                       /\ \A j \in matches(r) :
                             Cardinality({m \in copies(r) : side(m) = other(j)})
                                = Cardinality(twins(r))
                                    * Cardinality({i \in matches(r) : other(i) = other(j)})

\* two cases, the first with two hearings and the second with none: three
\* merged rows, the last one with null hearing columns
C11_Witness ==
    /\ Loaded
    /\ Len(csv.rows) = 2 /\ Len(csv2.rows) = 2
    /\ csv.rows[1][1] = K1 /\ csv.rows[2][1] = K2
    /\ Len(df.rows) = 3
    /\ df.rows[2][Len(df.columns) - 1] = Text(<<"R","A","O">>)
    /\ df.rows[3][Len(df.columns) - 1] = Null

\* C12: the case-side key is the first of combined_case_number, cnr_number,
\* case_number among the columns of the case table and the hearing-side key
\* the first of combinedcasenumber, cnr_number, case_number among the columns of
\* the hearing table, and the tables are joined on these two; when either
\* table has none of its candidates the load fails with the 'no common merge
\* key' error, there is no merged table and no score is computed.
C12_FirstKeyPair ==
    pc # "idle" =>
        LET cases    == CleanedCases
            hearings == CleanedHearings
            lk       == FirstOf(CaseKeyOrder, cases)
            rk       == FirstOf(HearingKeyOrder, hearings)
        IN  IF lk = 0 \/ rk = 0
            THEN /\ df = [k       |-> "ValueError",
                          message |-> "No common merge key found between cases and hearings"]
                 /\ result = df
            ELSE /\ ~ IsError(df)
                 /\ SubSeq(df.columns, 1, Len(df.columns) - 1)
                       = merge(cases, hearings, CaseKeyOrder[lk],
                               HearingKeyOrder[rk], "left").columns
                 /\ [m \in DOMAIN df.rows |-> SubSeq(df.rows[m], 1, Len(df.columns) - 1)]
                       = merge(cases, hearings, CaseKeyOrder[lk],
                               HearingKeyOrder[rk], "left").rows

\* a case table with case_number before cnr_number and a hearing table with
\* both: the join is on cnr_number, so the K1 case gets its K1 hearing only
C12_Witness ==
    /\ Loaded
    /\ csv.columns = DashCaseTwoKeys
    /\ Len(csv.rows) = 1 /\ csv.rows[1][2] = K1
    /\ Len(csv2.rows) = 2 /\ csv2.rows[1][2] = K1 /\ csv2.rows[2][2] = K9
    /\ Len(df.rows) = 1
    /\ HasCol(df, "case_number_case") /\ HasCol(df, "case_number_hear")

(***************************************************************************)
(* Claims about the dashboard scores (checked under SpecMerge)             *)
(***************************************************************************)
\* a dashboard got as far as its scores: result.df is the scored frame
HasScores == pc # "idle" /\ "df" \in DOMAIN result

ScoredCell(name, r) == result.df.rows[r][ColIdx(result.df, name)]

\* max(0, today - date_filed) in days, 0 for a missing date
AgeFloor(r) ==
    LET filed == ScoredCell(n_date_filed, r)
    IN  IF filed.k = "date" /\ filed.day <= today THEN today - filed.day ELSE 0

\* C16 as stated: in the judge and lawyer views age_days is
\* max(0, today - date_filed) in whole days, 0 when date_filed is missing, and
\* never negative.
C16_AgeNeverNegative ==
    HasScores =>
        \A r \in DOMAIN result.df.rows :
            /\ ScoredCell(n_age_days, r) = Int2Q(AgeFloor(r))
            /\ QLe(Int2Q(0), ScoredCell(n_age_days, r))

\* x rounded to one decimal place
IsRounded1(p, x) == IsNum(p) /\ IsRounded(QMul(p, Int2Q(10)), QMul(x, Int2Q(10)))

\* the health score the formula gives for an age in days and a status cell
HealthFormula(age, status) ==
    LET clipped == IF age > 500 THEN Int2Q(0) ELSE Q(500 - age, 5)
        disposed == status.k = "text"
                    /\ str_contains(str_lower(status.s), <<"d","i","s","p","o","s","e","d">>)
    IN  QAdd(QMul(Q(1, 2), clipped),
             QMul(Q(3, 10), IF disposed THEN Int2Q(100) ELSE Int2Q(60)))

\* the priority score the formula gives for an age in days and a health score
PriorityFormula(age, health) ==
    LET clipped == IF age > 1000 THEN Int2Q(100) ELSE Q(age, 10)
    IN  QAdd(QMul(Q(3, 5), QSub(Int2Q(100), health)), QMul(Q(2, 5), clipped))

case_status(f, r) ==
    IF NGt(RowGet(f, r, n_disposal_days), Int2Q(0)) THEN "Disposed" ELSE "Pending"

\* cases[cases["cnr_number"] == cnr]
cnr_rows(cases, cnr) ==
    LET col == Column(cases, n_cnr_number)
    IN  Filter(cases, LAMBDA r : col[r] = Text(cnr))

\* VerifyCase.py lines 7-39; cnr is the query parameter ("" when absent)
verify_case(case_file, cnr) ==
    The({ IF cnr = <<>> THEN [k |-> "info"]
          ELSE IF ~ HasCol(cases, n_cnr_number) THEN [k |-> "KeyError"]
          ELSE LET case == cnr_rows(cases, cnr)
               IN  IF case.rows = <<>>
                   THEN [k |-> "not_found", error |-> "Case not found or invalid CNR."]
                   ELSE [k      |-> "verified",
                         cnr    |-> RowGet(case, 1, n_cnr_number),
                         status |-> case_status(case, 1)] :
          cases \in {clean_cases(case_file)} })

\* DownloadCasePDF.py lines 49-82: a case number typed in and "Search Case"
\* pressed
search_case(case_file, case_number) ==
    The({ IF ~ HasCol(cases, n_cnr_number)
          THEN [k |-> "stopped", error |-> "CNR Number column not found"]
          ELSE LET filtered == cnr_rows(cases, case_number)
               IN  IF filtered.rows = <<>>
                   THEN [k |-> "not_found", error |-> "No case found with that CNR number."]
                   ELSE [k      |-> "preview",
                         cnr    |-> RowGet(filtered, 1, n_cnr_number),
                         status |-> case_status(filtered, 1)] :
          cases \in {clean_cases(case_file)} })

\* AI_Predictions.py lines 157-160, tab "Overview", which the script runs
\* before the other tabs: mean_absolute_error(disposal_days, predicted_disposal)
\* raises KeyError without a disposal_days column and ValueError on a NaN
overview_error(page) ==
    IF ~ HasCol(page.cases, n_disposal_days) THEN <<[k |-> "KeyError"]>>
    ELSE IF \E r \in DOMAIN page.cases.rows :
                \/ IsNull(RowGet(page.cases, r, n_disposal_days))
                \/ IsNull(RowGet(page.cases, r, n_predicted_disposal))
    THEN <<[k |-> "ValueError"]>>
    ELSE <<>>

\* AI_Predictions.py lines 216-241, tab "Explain a Case", on the rendered page
explain_case(page, cnr) ==
    IF page.k # "rendered" THEN page
    ELSE IF overview_error(page) # <<>> THEN overview_error(page)[1]
    ELSE IF cnr = <<>> THEN page
    ELSE LET row == cnr_rows(page.cases, cnr)
         IN  IF row.rows = <<>>
             THEN [k |-> "not_found", warning |-> "Case not found."]
             ELSE [k         |-> "explained",
                   cnr       |-> RowGet(row, 1, n_cnr_number),
                   predicted |-> RowGet(row, 1, n_predicted_disposal)]

\* Analytics.py lines 52-89 with every filing year selected (the default)
analytics_metrics(case_file) ==
    The({ IF ~ HasCol(cases, n_filing_year) THEN [k |-> "KeyError"]
          ELSE LET years    == Column(cases, n_filing_year)
                   filtered == IF \E r \in DOMAIN years : ~ IsNull(years[r])
                               THEN Filter(cases, LAMBDA r : ~ IsNull(years[r]))
                               ELSE cases
               IN  IF ~ HasCol(cases, n_disposal_days) THEN [k |-> "KeyError"]
                   ELSE LET days     == Column(filtered, n_disposal_days)
                            total    == Len(filtered.rows)
                            disposed == Cardinality({r \in DOMAIN days :
                                                        NGt(days[r], Int2Q(0))})
                        IN  [k                   |-> "rendered",
                             total_cases         |-> total,
                             disposed_cases      |-> disposed,
                             pending_cases       |-> total - disposed,
                             older_than_1yr      |->
                                Cardinality({r \in DOMAIN days : NGt(days[r], Int2Q(365))}),
                             case_clearance_rate |->
                                IF total > 0 THEN Q(disposed * 100, total) ELSE Int2Q(0)] :
          cases \in {clean_cases(case_file)} })

(***************************************************************************)
(* Specification: the views opened on one data file                        *)
(***************************************************************************)
K3 == Text(<<"K","3">>)

\* sample cases: <<cnr, disposal_days, total_hearings, filing_year, date_filed,
\*                 current_status, petitioner, respondent>>
ViewSamples ==
    << <<K1, Int2Q(120), Int2Q(9), Int2Q(2019), Text(d_2020_01_15), Text(st_disposed),
         Text(<<"A","b">>), Text(<<"C","d">>)>>,
       <<K2, Null, Int2Q(0), Int2Q(2022), Text(d_2020_03_05), Text(st_pending),
         Text(<<"x","A","B","y">>), Null>>,
       <<K3, Int2Q(0), Null, Null, Text(d_2020_13_01), Null, Null, Null>> >>

ViewHeader ==
    <<raw_cnr_number, raw_disposal_days, raw_hearing_count, raw_filing_year,
      raw_date_filed, raw_current_status, raw_petitioneradvocate, raw_respondentadvocate>>

\* the header with one column taken out
Without(h, name) == SelectSeq(h, LAMBDA c : c # name)

ViewHeaders ==
    { ViewHeader, Without(ViewHeader, raw_cnr_number),
      Without(ViewHeader, raw_filing_year), Without(ViewHeader, raw_date_filed) }

ViewCell(name, x) ==
    x[CHOOSE i \in DOMAIN ViewHeader : ViewHeader[i] = name]

MaxViewRows == 2

\* what is typed into a CNR field or comes with the verification link
Lookups == {<<>>, <<"K","2">>, <<"K","9">>}

Request(view, input) == [view |-> view, input |-> input]

InitViews ==
    /\ \E h \in ViewHeaders :
          \E v \in SeqsOf({ViewSamples[i] : i \in DOMAIN ViewSamples}, 1, MaxViewRows) :
              csv = DashTable(h, v, ViewCell)
    /\ \E v \in SeqsOf({DashHearingSamples[i] : i \in DOMAIN DashHearingSamples}, 0, 1) :
          csv2 = DashTable(DashHearingHeader, v, DashHearingCell)
    /\ hearing_weight = HearingWeightDefault
    /\ year_weight = YearWeightDefault
    /\ baseline_delay = BaselineDelayDefault
    /\ contamination = ContaminationDefault
    /\ today = FirstDay
    /\ df = NoFrame
    /\ result = NoResult
    /\ result2 = NoResult
    /\ pc = "idle"
    /\ NoWeb

\* a view is opened with an input and leaves its outcome on the screen
Open(view, input, outcome) ==
    /\ pc = "idle"
    /\ result2' = Request(view, input)
    /\ result' = outcome
    /\ pc' = view
    /\ UNCHANGED <<web, csv, csv2, df, hearing_weight, year_weight, baseline_delay,
                   contamination, today>>

VerifyCase == \E cnr \in Lookups : Open("verify", cnr, verify_case(csv, cnr))

SearchCase == \E cnr \in Lookups : Open("pdf", cnr, search_case(csv, cnr))

ExplainCase ==
    \E cnr \in Lookups :
        Open("explain", cnr,
             explain_case(ai_predictions_page(clean_cases(csv), hearing_weight,
                                              year_weight, baseline_delay), cnr))

OpenAnalytics == Open("analytics", <<>>, analytics_metrics(csv))

JudgeLogin ==
    \E judge \in UserNames :
        Open("judge", judge, judge_dashboard(load_all(csv, csv2), today, judge))

LawyerLogin ==
    \E lawyer \in UserNames :
        Open("lawyer", lawyer, lawyer_dashboard(load_all(csv, csv2), today, lawyer))

NextViews ==
    \/ VerifyCase \/ SearchCase \/ ExplainCase \/ OpenAnalytics
    \/ JudgeLogin \/ LawyerLogin \/ LeavePage

SpecViews == InitViews /\ [][NextViews]_vars

(***************************************************************************)
(* Claims about the views (checked under SpecViews)                        *)
(***************************************************************************)
\* the columns each view reads from the cleaned table without asking
RequiredBy(view) ==
    IF view = "explain" THEN REQUIRED_COLS
    ELSE IF view = "analytics" THEN <<n_filing_year, n_disposal_days>>
    ELSE IF view = "judge" THEN <<n_date_filed, n_current_status>>
    ELSE IF view = "lawyer" THEN <<n_date_filed, n_current_status,
                                   n_petitioneradvocate, n_respondentadvocate>>
    ELSE <<>>

MissingFor(view) == SelectSeq(RequiredBy(view), LAMBDA c : ~ HasCol(clean_cases(csv), c))

\* C18 as stated: in every view (AI Predictions, Analytics, Judge dashboard,
\* Lawyer dashboard), when a required column is absent from the cleaned table
\* the view reports the list of missing columns and stops: no partial chart,
\* no crash.
C18_MissingColumnsReported ==
    (pc \in {"explain", "analytics", "judge", "lawyer"} /\ MissingFor(pc) # <<>>) =>
        /\ result.k = "stopped"
        /\ "missing" \in DOMAIN result
        /\ result.missing = MissingFor(pc)

\* the cell of row r of the data file under a raw column name, null when the
\* file has no such column
RawCell(name, r) ==
    IF \E i \in DOMAIN csv.columns : csv.columns[i] = name
    THEN csv.rows[r][CHOOSE i \in DOMAIN csv.columns : csv.columns[i] = name]
    ELSE Null

\* no row of the data file has this CNR
NoSuchCase(cnr) == \A r \in DOMAIN csv.rows : RawCell(raw_cnr_number, r) # Text(cnr)

\* no case of the data file goes to this user: as a judge (no hearing of one of
\* its cases is before the judge), as a lawyer (advocate of neither side)
NoCaseOf(view, name) ==
    IF view = "judge"
    THEN \A r \in DOMAIN csv.rows : \A j \in DOMAIN csv2.rows :
            ~ /\ csv2.rows[j][1] = RawCell(raw_cnr_number, r)
              /\ csv2.rows[j][2].k = "text"
              /\ str_upper(csv2.rows[j][2].s) = str_upper(name)
    ELSE \A r \in DOMAIN csv.rows :
            \A side \in {raw_petitioneradvocate, raw_respondentadvocate} :
                LET c == RawCell(side, r)
                IN  ~ (c.k = "text" /\ str_contains(str_lower(c.s), str_lower(name)))

\* C19 as stated: every lookup by CNR (explain-a-case, PDF search, QR
\* verification) and every empty filter result (judge with no cases, lawyer
\* with empty portfolio) ends in a user-visible 'not found' outcome when nothing
\* matches: no case is shown, no PDF is produced, no exception is raised.
C19_NotFoundOutcome ==
    /\ ( /\ pc \in {"explain", "pdf", "verify"}
         /\ result2.input # <<>>
         /\ NoSuchCase(result2.input) ) =>
            /\ result.k \in {"not_found", "stopped"}
            /\ DOMAIN result \cap {"error", "warning", "missing"} # {}
    /\ (pc \in {"judge", "lawyer"} /\ NoCaseOf(pc, result2.input)) =>
            /\ result.k = "stopped"
            /\ DOMAIN result \cap {"info", "warning"} # {}

\* the first row of the data file with this CNR has disposal_days 0 or blank
RawPending(cnr) ==
    LET r == CHOOSE r \in DOMAIN csv.rows :
                /\ RawCell(raw_cnr_number, r) = cnr
                /\ \A q \in 1..(r - 1) : RawCell(raw_cnr_number, q) # cnr
        days == RawCell(raw_disposal_days, r)
    IN  IsNull(days) \/ days = Int2Q(0)

\* C20 as stated: a case whose raw disposal_days is 0 or null is pending for
\* every consumer of the cleaned table: it is not among the Analytics
\* disposed_cases (nor in the clearance rate), and the PDF preview and
\* VerifyCase show its status as 'Pending'.
C20_ZeroOrNullIsPending ==
    /\ (pc \in {"pdf", "verify"} /\ result.k \in {"preview", "verified"}
            /\ RawPending(result.cnr)) =>
          result.status = "Pending"
    /\ (pc = "analytics" /\ result.k = "rendered") =>
          LET disposed == {r \in DOMAIN csv.rows :
                              NGt(RawCell(raw_disposal_days, r), Int2Q(0))}
          IN  /\ result.total_cases = Len(csv.rows)
              /\ result.disposed_cases = Cardinality(disposed)
              /\ result.case_clearance_rate
                    = Q(100 * Cardinality(disposed), Len(csv.rows))

(***************************************************************************)
(* Download Case PDF: the page script under Streamlit's reruns             *)
(***************************************************************************)
n_case_type  == "case_type"

\* row.get(name, default) on row r of f
row_get(f, r, name, default) ==
    IF HasCol(f, name) THEN f.rows[r][ColIdx(f, name)] ELSE default

NA == Label("N/A")

\* the risk generate_case_pdf prints: "High" above RiskDays disposal days
RiskDays == 365

\* DownloadCasePDF.py lines 89-145: the table of the summary and the risk
\* line; row is the first row of the frame `case`
generate_case_pdf(case) ==
    LET days == row_get(case, 1, n_disposal_days, Int2Q(0))
    IN  [cnr_number     |-> row_get(case, 1, n_cnr_number, NA),
         court_name     |-> row_get(case, 1, n_court_name, NA),
         case_type      |-> row_get(case, 1, n_case_type, NA),
         filing_year    |-> row_get(case, 1, n_filing_year, NA),
         total_hearings |-> row_get(case, 1, n_total_hearings, NA),
         disposal_days  |-> IF NGt(days, Int2Q(0)) THEN days ELSE Label("Pending"),
         risk           |-> IF NGt(days, Int2Q(RiskDays)) THEN "High" ELSE "Normal"]

SearchLabel   == "Search Case"
GenerateLabel == "Generate PDF"

\* what one run of the page script leaves on the screen
Screen(error, preview, download) ==
    [error |-> error, preview |-> preview, generate_button |-> preview # NoResult,
     download |-> download]

\* DownloadCasePDF.py lines 49-160, one run of the script: case_number is the
\* value of the text input, clicked the button whose click started the run
\* ("" when the run was started otherwise).  A button returns True only in
\* the run its own click started, and only where the script reaches it.
download_case_pdf(case_file, case_number, clicked) ==
    The({ IF ~ HasCol(cases, n_cnr_number)
          THEN Screen("CNR Number column not found", NoResult, NoResult)
          ELSE LET filtered == cnr_rows(cases, case_number)
                   searched == clicked = SearchLabel
                   \* case = None, then the row found by "Search Case"
                   case     == IF searched /\ filtered.rows # <<>>
                               THEN [filtered EXCEPT !.rows = <<filtered.rows[1]>>]
                               ELSE NoResult
               IN  IF case = NoResult
                   THEN Screen(IF searched THEN "No case found with that CNR number."
                               ELSE "", NoResult, NoResult)
                   ELSE Screen("",
                               [cnr    |-> row_get(case, 1, n_cnr_number, NA),
                                status |-> case_status(case, 1)],
                               IF clicked = GenerateLabel
                               THEN [file_name |-> row_get(case, 1, n_cnr_number,
                                                           Label("case")),
                                     pdf       |-> generate_case_pdf(case)]
                               ELSE NoResult) :
          cases \in {clean_cases(case_file)} })

(***************************************************************************)
(* Specification: a user on the Download Case PDF page                     *)
(***************************************************************************)
\* the page after a run: the text input keeps its value across runs
Page(case_number, clicked, screen) ==
    [case_number |-> case_number, clicked |-> clicked, screen |-> screen]

InitPdf ==
    /\ \E h \in ViewHeaders :
          \E v \in SeqsOf({ViewSamples[i] : i \in DOMAIN ViewSamples}, 1, MaxViewRows) :
              csv = DashTable(h, v, ViewCell)
    /\ csv2 = NoFrame
    /\ hearing_weight = 0
    /\ year_weight = 0
    /\ baseline_delay = 0
    /\ contamination = 0
    /\ today = FirstDay
    /\ df = NoFrame
    /\ result = NoResult
    /\ result2 = NoResult
    /\ pc = "DownloadCasePDF"
    /\ session_state = [authenticated |-> Null, user_role |-> Null, user_name |-> Null]
    /\ cookies = NoResult
    /\ tokens = NoResult
    /\ widgets = Page(<<>>, "", download_case_pdf(csv, <<>>, ""))
    /\ store = NoResult
    /\ script = NoResult

\* a rerun of the script started by `clicked`, with the text input at
\* case_number
Rerun(case_number, clicked) ==
    /\ widgets' = Page(case_number, clicked, download_case_pdf(csv, case_number, clicked))
    /\ UNCHANGED <<csv, csv2, df, result, result2, hearing_weight, year_weight,
                   baseline_delay, contamination, today, pc, session_state, cookies,
                   tokens, store, script>>

\* the user types a case number into "Enter Case Number"
EnterCaseNumber ==
    \E case_number \in Lookups :
        /\ widgets.screen.error # "CNR Number column not found"
        /\ case_number # widgets.case_number
        /\ Rerun(case_number, "")

\* the user clicks "Search Case"
ClickSearchCase ==
    /\ widgets.screen.error # "CNR Number column not found"
    /\ Rerun(widgets.case_number, SearchLabel)

\* the user clicks "Generate PDF", which is on the screen
ClickGeneratePDF ==
    /\ widgets.screen.generate_button
    /\ Rerun(widgets.case_number, GenerateLabel)

NextPdf == EnterCaseNumber \/ ClickSearchCase \/ ClickGeneratePDF

SpecPdf == InitPdf /\ [][NextPdf]_vars

(***************************************************************************)
(* Claim about the Download Case PDF page                                  *)
(***************************************************************************)
\* the case of the stored file with the CNR typed in, as generate_case_pdf
\* would print it
PdfOf(case_number) ==
    LET cases    == clean_cases(csv)
        filtered == cnr_rows(cases, case_number)
    IN  generate_case_pdf([filtered EXCEPT !.rows = <<filtered.rows[1]>>])

\* C21: once "Search Case" has found the case whose CNR is typed in and its
\* preview is on the screen, the click on "Generate PDF" that follows runs
\* generate_case_pdf for that case and offers the download.
C21_GenerateAfterSearch ==
    [][ (/\ widgets.clicked = SearchLabel
         /\ widgets.screen.preview # NoResult
         /\ widgets'.clicked = GenerateLabel)
        => (/\ widgets'.screen.download # NoResult
            /\ widgets'.screen.download.pdf = PdfOf(widgets.case_number)) ]_vars

(***************************************************************************)
(* Login state: session state, cookies, tokens, the sidebar                *)
(***************************************************************************)
Judge  == Label("Judge")
Lawyer == Label("Advocate (Lawyer)")
Roles  == {Judge, Lawyer}

\* Python truth of a session or cookie value (None, False and "" are false)
Truthy(v) == v # Null /\ v # Bool(FALSE) /\ v # Text(<<>>)

\* st.session_state of a session that has just connected
NewSessionState == [authenticated |-> Null, user_role |-> Null, user_name |-> Null]

\* the browser before any cookie is set
NoCookies ==
    [session_token |-> Null, user_name |-> Null, authenticated |-> Null,
     user_role |-> Null]

\* sessions.validate_token(name, token): a lookup in the tokens held valid
validate_token(name, token) == <<name, token>> \in tokens.valid

\* sessions.delete_token(user): the user's tokens are valid no longer
delete_token(user) ==
    [tokens EXCEPT !.valid = {p \in tokens.valid : p[1] # user}]

\* the Login page on a successful login of `name` in role `role`: a new
\* token is issued and kept in the cookies with the name, the session state
\* holds the user
login(name, role) ==
    LET token == Label(tokens.issued + 1)
    IN  [session_state |-> [authenticated |-> Bool(TRUE), user_role |-> role,
                            user_name |-> Text(name)],
         cookies       |-> [session_token |-> token, user_name |-> Text(name),
                            authenticated |-> Label("true"), user_role |-> role],
         tokens        |-> [issued |-> tokens.issued + 1,
                            valid  |-> tokens.valid \cup {<<Text(name), token>>}]]

\* Judge_Dashboard.py lines 28-31, Lawyer_Dashboard.py lines 30-33
auto_login(c) ==
    LET token == c.session_token
        name  == c.user_name
    IN  Truthy(token) /\ Truthy(name) /\ validate_token(name, token)

\* Judge_Dashboard.py lines 25-39, Lawyer_Dashboard.py lines 27-41: the cookie
\* login at the head of both dashboards; ready is cookies.ready()
cookie_login(ss, c, ready) ==
    IF ~ ready THEN [k |-> "stopped", session_state |-> ss]
    ELSE LET s2 == IF ~ Truthy(ss.authenticated) /\ auto_login(c)
                   THEN [ss EXCEPT !.authenticated = Bool(TRUE),
                                   !.user_name = c.user_name]
                   ELSE ss
         IN  IF ~ Truthy(s2.authenticated)
             THEN [k |-> "switch_page", session_state |-> s2]
             ELSE [k |-> "pass", session_state |-> s2]

\* helpers/sidebar.py lines 75-78: the label of the main button
main_label(ss) ==
    IF Truthy(ss.authenticated) /\ ss.user_role \in Roles
    THEN "Your Cases" ELSE "Login"

\* helpers/sidebar.py lines 80-90: where a click on the main button leads
main_button(ss) ==
    IF Truthy(ss.authenticated)
    THEN IF ss.user_role = Judge THEN "Judge_Dashboard"
         ELSE IF ss.user_role = Lawyer THEN "Lawyer_Dashboard"
         ELSE "Login"
    ELSE "Login"

\* helpers/sidebar.py lines 113-139, a click on "Logout": deleted says that
\* delete_token was imported and returned, saved that the cookie manager was
\* built, was ready and saved (each try block swallows what is raised)
logout(ss, c, deleted, saved) ==
    [tokens        |-> IF deleted /\ Truthy(ss.user_name)
                       THEN delete_token(ss.user_name) ELSE tokens,
     session_state |-> [authenticated |-> Bool(FALSE), user_role |-> Null,
                        user_name |-> Null],
     cookies       |-> IF saved
                       THEN [c EXCEPT !.authenticated = Label("false"),
                                      !.user_role = Text(<<>>),
                                      !.user_name = Text(<<>>)]
                       ELSE c,
     page          |-> "Login"]

(***************************************************************************)
(* The two dashboards behind the cookie login                              *)
(***************************************************************************)
\* the alerts of the Judge dashboard: health below AlertHealth or age above
\* AlertAgeDays
AlertHealth  == 40
AlertAgeDays == 730

\* the row numbers of f, the row r put before the first row with a smaller
\* value in column col
RECURSIVE InsertDesc(_, _, _)
InsertDesc(col, r, s) ==
    IF s = <<>> THEN <<r>>
    ELSE IF NGt(col[r], col[s[1]]) THEN <<r>> \o s
    ELSE <<s[1]>> \o InsertDesc(col, r, Tail(s))

RECURSIVE OrderDesc(_, _)
OrderDesc(col, n) == IF n = 0 THEN <<>> ELSE InsertDesc(col, n, OrderDesc(col, n - 1))

\* DataFrame.sort_values(name, ascending=False)
sort_values_desc(f, name) ==
    LET order == OrderDesc(Column(f, name), Len(f.rows))
    IN  [f EXCEPT !.rows = [a \in DOMAIN order |-> f.rows[order[a]]]]

\* Judge_Dashboard.py lines 123-140: the tables of the sections "Case
\* Management" and "Alerts", both taken from judge_cases
judge_sections(judge_cases) ==
    LET health == Column(judge_cases, n_case_health_score)
        age    == Column(judge_cases, n_age_days)
    IN  [case_management |-> sort_values_desc(judge_cases, n_priority_score),
         alerts          |-> Filter(judge_cases,
                                    LAMBDA r : \/ NGt(Int2Q(AlertHealth), health[r])
                                               \/ NGt(age[r], Int2Q(AlertAgeDays)))]

\* what a run of a dashboard script leaves: the session state, the page the
\* browser is on, whether the sidebar was rendered, the frame loaded and the
\* view rendered
PageRun(ss, page, sidebar, frame, view) ==
    [session_state |-> ss, page |-> page, sidebar |-> sidebar, df |-> frame,
     view |-> view]

\* a dashboard script from its cookie login on; body(ss) is the script after
\* render_sidebar()
behind_login(page, ss, c, ready, body(_)) ==
    LET gate == cookie_login(ss, c, ready)
    IN  IF gate.k = "stopped"
        THEN PageRun(gate.session_state, page, FALSE, NoFrame, [k |-> "stopped"])
        ELSE IF gate.k = "switch_page"
        THEN PageRun(gate.session_state, "Login", FALSE, NoFrame, NoResult)
        ELSE body(gate.session_state)

\* Judge_Dashboard.py lines 25-140, one run of the script
judge_page(ss, c, ready, case_file, hearing_file, now) ==
    LET body(s2) ==
          The({ PageRun(s2, "Judge_Dashboard", TRUE, merged,
                        IF s2.user_name = Null THEN [k |-> "AttributeError"]
                        ELSE The({ IF view.k = "rendered"
                                   THEN view @@ judge_sections(view.cases)
                                   ELSE view :
                                   view \in {judge_dashboard(merged, now,
                                                             s2.user_name.s)} })) :
                merged \in {load_all(case_file, hearing_file)} })
    IN  behind_login("Judge_Dashboard", ss, c, ready, body)

\* Lawyer_Dashboard.py lines 27-112, one run of the script
lawyer_page(ss, c, ready, case_file, hearing_file, now) ==
    LET body(s2) ==
          The({ PageRun(s2, "Lawyer_Dashboard", TRUE, merged,
                        IF s2.user_name = Null THEN [k |-> "TypeError"]
                        ELSE lawyer_dashboard(merged, now, s2.user_name.s)) :
                merged \in {load_all(case_file, hearing_file)} })
    IN  behind_login("Lawyer_Dashboard", ss, c, ready, body)

(***************************************************************************)
(* Specification: one browser logging in, moving about and logging out     *)
(***************************************************************************)
rao_lower == <<"r","a","o">>

\* hearing files, rows <<case key, judge>>: K1 is heard by Rao, K2 by Sen and,
\* in the first file, by Rao too; in the last file Rao hears no case
SessionHearingFiles ==
    { << <<K1, Text(<<"R","A","O">>)>>, <<K2, Text(<<"S","e","n">>)>>,
         <<K2, Text(rao_lower)>> >>,
      << <<K1, Text(<<"R","A","O">>)>>, <<K2, Text(<<"S","e","n">>)>> >>,
      << <<K2, Text(<<"S","e","n">>)>> >> }

d_2017_06_30 == <<"2","0","1","7","-","0","6","-","3","0">>

\* the case file: <<cnr, date_filed, current_status, petitioner, respondent>>;
\* K1 is old enough for an alert
SessionCaseSamples ==
    << <<K1, Text(d_2017_06_30), Text(st_pending), Text(<<"A","b">>), Null>>,
       <<K2, Text(d_2020_03_05), Text(st_disposed), Null, Text(<<"x","A","B","y">>)>> >>

\* the logins issued in a run of the model
MaxLogins == 2

\* the pages a browser is sent to or opens by its address
Pages == {"Login", "Analytics", "Judge_Dashboard", "Lawyer_Dashboard"}

\* the last click of the browser, and whether "Logout" was clicked in it
\* since the last login
Browser(clicked, logged_out) == [clicked |-> clicked, logged_out |-> logged_out]

InitSession ==
    /\ csv = DashTable(DashCaseHeader, SessionCaseSamples, DashCaseCell)
    /\ \E v \in SessionHearingFiles :
          csv2 = DashTable(DashHearingHeader, v, DashHearingCell)
    /\ today = FirstDay
    /\ df = NoFrame
    /\ result = NoResult
    /\ result2 = Browser("", FALSE)
    /\ hearing_weight = 0
    /\ year_weight = 0
    /\ baseline_delay = 0
    /\ contamination = 0
    /\ pc = "Login"
    /\ session_state = NewSessionState
    /\ cookies = NoCookies
    /\ tokens = [issued |-> 0, valid |-> {}]
    /\ widgets = [sidebar |-> FALSE, main_label |-> ""]
    /\ store = NoResult
    /\ script = NoResult

\* the screen after a run of a page script
Show(run) ==
    /\ session_state' = run.session_state
    /\ pc' = run.page
    /\ df' = run.df
    /\ result' = run.view
    /\ widgets' = [sidebar    |-> run.sidebar,
                   main_label |-> IF run.sidebar THEN main_label(run.session_state)
                                  ELSE ""]

\* the script of page p run in a session whose state is ss, with the cookies c
RunPage(p, ss, c) ==
    IF p = "Judge_Dashboard"
    THEN \E ready \in BOOLEAN : Show(judge_page(ss, c, ready, csv, csv2, today))
    ELSE IF p = "Lawyer_Dashboard"
    THEN \E ready \in BOOLEAN : Show(lawyer_page(ss, c, ready, csv, csv2, today))
    ELSE Show(PageRun(ss, p, p = "Analytics", NoFrame, NoResult))

Fixed ==
    UNCHANGED <<csv, csv2, hearing_weight, year_weight, baseline_delay,
                contamination, today, store, script>>

\* a user logs in on the Login page and is sent to the dashboard of the role
LogIn ==
    \E name \in UserNames, role \in Roles :
        /\ pc = "Login"
        /\ tokens.issued < MaxLogins
        /\ LET in == login(name, role)
           IN  /\ tokens' = in.tokens
               /\ cookies' = in.cookies
               /\ RunPage(main_button(in.session_state), in.session_state, in.cookies)
        /\ result2' = Browser("Login", FALSE)
        /\ Fixed

\* the browser opens a page by its address (or reloads): a new session with
\* an empty session state and the cookies the browser holds
Visit ==
    \E p \in Pages :
        /\ RunPage(p, NewSessionState, cookies)
        /\ result2' = Browser("", result2.logged_out)
        /\ UNCHANGED <<cookies, tokens>>
        /\ Fixed

\* the cookie manager has become ready: the script that stopped runs again
CookiesReady ==
    /\ result = [k |-> "stopped"]
    /\ pc \in {"Judge_Dashboard", "Lawyer_Dashboard"}
    /\ IF pc = "Judge_Dashboard"
       THEN Show(judge_page(session_state, cookies, TRUE, csv, csv2, today))
       ELSE Show(lawyer_page(session_state, cookies, TRUE, csv, csv2, today))
    /\ UNCHANGED <<cookies, tokens, result2>>
    /\ Fixed

\* a click on the main button of the sidebar
ClickMainButton ==
    /\ widgets.sidebar
    /\ RunPage(main_button(session_state), session_state, cookies)
    /\ result2' = Browser(widgets.main_label, result2.logged_out)
    /\ UNCHANGED <<cookies, tokens>>
    /\ Fixed

\* a click on "Analytics" in the sidebar
ClickAnalytics ==
    /\ widgets.sidebar
    /\ pc # "Analytics"
    /\ RunPage("Analytics", session_state, cookies)
    /\ result2' = Browser("Analytics", result2.logged_out)
    /\ UNCHANGED <<cookies, tokens>>
    /\ Fixed

\* a click on "Logout", which the sidebar shows to an authenticated session
ClickLogout ==
    \E deleted \in BOOLEAN, saved \in BOOLEAN :
        /\ widgets.sidebar
        /\ Truthy(session_state.authenticated)
        /\ LET out == logout(session_state, cookies, deleted, saved)
           IN  /\ tokens' = out.tokens
               /\ cookies' = out.cookies
               /\ RunPage(out.page, out.session_state, out.cookies)
        /\ result2' = Browser("Logout", TRUE)
        /\ Fixed

NextSession ==
    \/ LogIn \/ Visit \/ CookiesReady \/ ClickMainButton \/ ClickAnalytics
    \/ ClickLogout

SpecSession == InitSession /\ [][NextSession]_vars

(***************************************************************************)
(* Claims about the login state                                            *)
(***************************************************************************)
Authenticated == Truthy(session_state.authenticated)

DashboardOf(role) == IF role = Judge THEN "Judge_Dashboard" ELSE "Lawyer_Dashboard"

\* C22: a session with authenticated = True has the role Judge or Advocate
\* (Lawyer), the sidebar it is shown labels its main button "Your Cases", and
\* a click on that button opens the dashboard of the role; also after a
\* cookie login on one of the dashboards.
C22_AuthenticatedHasRole ==
    Authenticated =>
        /\ session_state.user_role \in Roles
        /\ widgets.sidebar => widgets.main_label = "Your Cases"
        /\ main_button(session_state) = DashboardOf(session_state.user_role)

LoggedOutSession == [authenticated |-> Bool(FALSE), user_role |-> Null, user_name |-> Null]

\* C23: a click on "Logout" leaves authenticated = False, user_role = None,
\* user_name = None and the browser on the Login page, whatever became of
\* delete_token and of the cookies; and from then until the next login no
\* session of the browser is authenticated, whichever pages it visits.
C23_LogoutEndsLogin ==
    /\ result2.clicked = "Logout" => session_state = LoggedOutSession /\ pc = "Login"
    /\ result2.logged_out => ~ Authenticated

(***************************************************************************)
(* Claim about the Judge dashboard behind the login                        *)
(***************************************************************************)
\* every row of the table f names the user of the session as its judge,
\* letter case aside
OwnRows(f) ==
    \A r \in DOMAIN f.rows :
        LET judge == f.rows[r][ColIdx(f, n_judge)]
        IN  /\ judge.k = "text"
            /\ str_lower(judge.s) = str_lower(session_state.user_name.s)

\* C24: the Judge dashboard has loaded the case file and renders rows only
\* in an authenticated session (an unauthenticated visit leaves the page
\* without load_all having run), and every row of its tables (the judge's
\* cases, Case Management, Alerts) has the session's user_name as its judge,
\* ignoring case.
C24_OwnCasesOnly ==
    /\ ~ Authenticated => df = NoFrame /\ result \in {NoResult, [k |-> "stopped"]}
    /\ (pc = "Judge_Dashboard" /\ ~ Authenticated) => result = [k |-> "stopped"]
    /\ (pc = "Judge_Dashboard" /\ "k" \in DOMAIN result /\ result.k = "rendered") =>
          /\ Authenticated
          /\ OwnRows(result.cases)
          /\ OwnRows(result.case_management)
          /\ OwnRows(result.alerts)

\* a judge whose name is written in another case in the file sees an alert,
\* while the file holds cases of other judges too
C24_Witness ==
    /\ pc = "Judge_Dashboard"
    /\ "k" \in DOMAIN result /\ result.k = "rendered"
    /\ result.alerts.rows # <<>>
    /\ Len(result.cases.rows) < Len(df.rows)
    /\ \E r \in DOMAIN result.cases.rows :
          result.cases.rows[r][ColIdx(result.cases, n_judge)] # session_state.user_name
    /\ \E r \in DOMAIN df.rows :
          df.rows[r][ColIdx(df, n_judge)] = Text(<<"S","e","n">>)

(***************************************************************************)
(* Lawyer dashboard: the case workspace and the store of notes             *)
(***************************************************************************)
n_nexthearingdate == "nexthearingdate"

\* a dict without keys; d[key] = value on a dict
EmptyDict == [c \in {} |-> Null]

dict_set(d, key, value) ==
    [c \in DOMAIN d \cup {key} |-> IF c = key THEN value ELSE d[c]]

\* utils.load_notes(), utils.load_reminders(): the whole file as a dict
load_notes == store.notes

load_reminders == store.reminders

\* utils.save_notes(notes), utils.save_reminders(reminders): the dict passed
\* in becomes the file; the last write wins, nothing is locked
save_notes(notes) == [store EXCEPT !.notes = notes]

save_reminders(reminders) == [store EXCEPT !.reminders = reminders]

\* the reminder is set ReminderLead days before the next hearing
ReminderLead == 2

\* Lawyer_Dashboard.py lines 120-122: the case of the portfolio with the CNR
\* typed in, if any
workspace_case(portfolio, cnr) ==
    IF cnr = <<>> THEN [portfolio EXCEPT !.rows = <<>>] ELSE cnr_rows(portfolio, cnr)

\* Lawyer_Dashboard.py lines 131-133: the reminder of the case, NaT without a
\* next hearing date
reminder_date(case) ==
    LET nh == to_datetime(RowGet(case, 1, n_nexthearingdate))
    IN  IF nh.k = "date" THEN Date(nh.day - ReminderLead) ELSE NaT

(***************************************************************************)
(* Specification: two lawyers at their workspaces                          *)
(***************************************************************************)
Sessions == {1, 2}

\* the portfolios of the two lawyers: <<cnr, next hearing date>>
Portfolio(s) ==
    [columns |-> <<n_cnr_number, n_nexthearingdate>>,
     rows    |-> IF s = 1 THEN << <<K1, Text(d_2020_03_05)>> >>
                 ELSE << <<K2, Null>>, <<K3, Text(d_2020_03_01)>> >>]

\* what is typed into "CNR Number", and into the note in session s
WorkspaceCnrs == {<<"K","1">>, <<"K","2">>, <<"K","3">>}
NoteText(s)   == IF s = 1 THEN <<"a">> ELSE <<"b">>

\* the runs of the script in one session
MaxRuns == 2

\* the run of the script in a session: where it is, the widgets' values, its
\* dicts notes and reminders, the number of the run
Run(at, cnr, note_text, save, notes, reminders, runs) ==
    [pc |-> at, cnr |-> cnr, note_text |-> note_text, save |-> save,
     notes |-> notes, reminders |-> reminders, runs |-> runs]

InitNotes ==
    /\ csv = NoFrame
    /\ csv2 = NoFrame
    /\ df = NoFrame
    /\ result = NoResult
    /\ result2 = NoResult
    /\ hearing_weight = 0
    /\ year_weight = 0
    /\ baseline_delay = 0
    /\ contamination = 0
    /\ today = FirstDay
    /\ pc = "Lawyer_Dashboard"
    /\ session_state = NewSessionState
    /\ cookies = NoCookies
    /\ tokens = [issued |-> 0, valid |-> {}]
    /\ widgets = NoResult
    /\ store = [notes |-> EmptyDict, reminders |-> EmptyDict]
    /\ script = [s \in Sessions |-> Run("done", <<>>, <<>>, FALSE, EmptyDict, EmptyDict, 0)]

Rest ==
    UNCHANGED <<csv, csv2, df, result, result2, hearing_weight, year_weight,
                baseline_delay, contamination, today, pc, session_state, cookies,
                tokens, widgets>>

\* the lawyer of session s types a CNR, or types a note and clicks
\* "save_notes": the script of the session starts to run again
WorkspaceRerun(s) ==
    \E cnr \in WorkspaceCnrs, save \in BOOLEAN :
        /\ script[s].pc = "done"
        /\ script[s].runs < MaxRuns
        /\ script' = [script EXCEPT ![s] = Run("load_notes", cnr, NoteText(s), save,
                                               EmptyDict, EmptyDict, @.runs + 1)]
        /\ UNCHANGED store
        /\ Rest

\* line 117: notes = load_notes()
LoadNotes(s) ==
    /\ script[s].pc = "load_notes"
    /\ script' = [script EXCEPT ![s].notes = load_notes, ![s].pc = "load_reminders"]
    /\ UNCHANGED store
    /\ Rest

\* line 118: reminders = load_reminders()
LoadReminders(s) ==
    /\ script[s].pc = "load_reminders"
    /\ script' = [script EXCEPT ![s].reminders = load_reminders, ![s].pc = "save_notes"]
    /\ UNCHANGED store
    /\ Rest

\* lines 120-129: with a case of the portfolio and the button clicked, the
\* note is put into notes and notes is saved
SaveNotes(s) ==
    /\ script[s].pc = "save_notes"
    /\ IF workspace_case(Portfolio(s), script[s].cnr).rows # <<>> /\ script[s].save
       THEN LET notes == dict_set(script[s].notes, script[s].cnr, script[s].note_text)
            IN  /\ store' = save_notes(notes)
                /\ script' = [script EXCEPT ![s].notes = notes,
                                            ![s].pc = "save_reminders"]
       ELSE /\ UNCHANGED store
            /\ script' = [script EXCEPT ![s].pc = "save_reminders"]
    /\ Rest

\* lines 131-134: with a case of the portfolio that has a next hearing date,
\* the reminder is put into reminders and reminders is saved
SaveReminders(s) ==
    /\ script[s].pc = "save_reminders"
    /\ LET case == workspace_case(Portfolio(s), script[s].cnr)
       IN  IF case.rows # <<>> /\ reminder_date(case) # NaT
           THEN LET reminders == dict_set(script[s].reminders, script[s].cnr,
                                          reminder_date(case))
                IN  /\ store' = save_reminders(reminders)
                    /\ script' = [script EXCEPT ![s].reminders = reminders,
                                                ![s].pc = "done"]
           ELSE /\ UNCHANGED store
                /\ script' = [script EXCEPT ![s].pc = "done"]
    /\ Rest

NextNotes ==
    \E s \in Sessions :
        \/ WorkspaceRerun(s) \/ LoadNotes(s) \/ LoadReminders(s) \/ SaveNotes(s)
        \/ SaveReminders(s)

SpecNotes == InitNotes /\ [][NextNotes]_vars

(***************************************************************************)
(* Claim about the store of notes                                          *)
(***************************************************************************)
\* the entries of d under every key but cnr are in e unchanged
KeepsOthers(d, e, cnr) ==
    \A c \in DOMAIN d : c # cnr => c \in DOMAIN e /\ e[c] = d[c]

\* C25: a step of a session that saves the note or the reminder of one CNR
\* leaves the stored note and the stored reminder of every other CNR as they
\* were, however the loads and saves of the two sessions interleave (so the
\* notes two sessions save for different CNRs are both in the store after
\* both saves).
C25_SavesKeepOtherEntries ==
    [][ \A s \in Sessions :
            script'[s] # script[s] =>
                /\ KeepsOthers(store.notes, store'.notes, script[s].cnr)
                /\ KeepsOthers(store.reminders, store'.reminders, script[s].cnr) ]_vars

====
